---- MODULE Spec2Model ----
(***************************************************************************)
(* Versioned transcript engine of the collaborative transcript editor:     *)
(* the diff engine (workers/diff-core.js), the version store client        *)
(* (data/api.js), the chain verifier (history/verify-chain.js) and the     *)
(* save coordinator (ui/controls.js).                                      *)
(*                                                                         *)
(* Text is a sequence of one-character strings.  A diff op is a record     *)
(* [op |-> -1 | 0 | 1, s |-> text].                                        *)
(***************************************************************************)
EXTENDS Integers, Sequences, FiniteSets, TLC

\* ------------------------------------------------------------------------
\* Bounds of the model
\* ------------------------------------------------------------------------
\* longest input string given to the diff engine
MaxLen == 3

\* highest version number a run creates
MaxVersion == 3

\* ------------------------------------------------------------------------
\* Text helpers
\* ------------------------------------------------------------------------
\* the characters the diff engine is exercised with
Alphabet == {"a", "b", " ", "\n", "\r"}

StringsUpTo(n) == UNION {[1..m -> Alphabet] : m \in 0..n}

Min(x, y) == IF x < y THEN x ELSE y
Max(x, y) == IF x > y THEN x ELSE y

\* Array.prototype.slice(from, to) on a 0-based array held as a 1-based sequence
Slice(s, from, to) ==
  LET f == Max(0, from)
      t == Min(Len(s), to)
  IN  IF t <= f THEN <<>> ELSE SubSeq(s, f + 1, t)

RECURSIVE Join(_)
\* arr.join(''): the concatenation of a sequence of strings
Join(arr) == IF arr = <<>> THEN <<>> ELSE Head(arr) \o Join(Tail(arr))

\* a[i] of a 0-based JS array; out of range reads give undefined, which
\* join('') renders as the empty string
At(a, i) == IF i >= 0 /\ i < Len(a) THEN a[i + 1] ELSE <<>>

RECURSIVE Filter(_, _)
Filter(s, drop) ==
  IF s = <<>> THEN <<>>
  ELSE IF Head(s) \in drop THEN Filter(Tail(s), drop)
       ELSE <<Head(s)>> \o Filter(Tail(s), drop)

RECURSIVE MapChar(_, _, _)
MapChar(s, from, to) ==
  IF s = <<>> THEN <<>>
  ELSE <<IF Head(s) = from THEN to ELSE Head(s)>> \o MapChar(Tail(s), from, to)

RECURSIVE CrLfToLf(_)
\* t.replace(/\r\n/g, '\n')
CrLfToLf(s) ==
  IF s = <<>> THEN <<>>
  ELSE IF Len(s) >= 2 /\ s[1] = "\r" /\ s[2] = "\n"
       THEN <<"\n">> \o CrLfToLf(Tail(Tail(s)))
       ELSE <<Head(s)>> \o CrLfToLf(Tail(s))

\* stand-ins for U+00A0, for the bidi formatting characters U+200E, U+200F,
\* U+202A-202E, U+2066-2069, for a combining mark and for the letter that
\* "a" followed by the mark composes to
NBSP == "_"
BidiMarks == {"|"}
Accent == "'"
Composed == "A"

RECURSIVE normalize(_)
\* t.normalize('NFC'): a letter and its combining mark become one character
normalize(s) ==
  IF s = <<>> THEN <<>>
  ELSE IF Len(s) >= 2 /\ s[1] = "a" /\ s[2] = Accent
       THEN <<Composed>> \o normalize(Tail(Tail(s)))
       ELSE <<Head(s)>> \o normalize(Tail(s))

\* canon of diff-core.js: CRLF and lone CR become LF, NBSP becomes a space,
\* bidi formatting is stripped, the result is NFC-normalized
canon(s) ==
  normalize(Filter(MapChar(MapChar(CrLfToLf(s), "\r", "\n"), NBSP, " "), BidiMarks))

RECURSIVE TrimLineEnds(_)
\* t.replace(/[ \t]+$/gm, ''): drop the blanks that end a line
TrimLineEnds(s) ==
  IF s = <<>> THEN <<>>
  ELSE LET rest == TrimLineEnds(Tail(s))
       IN  IF Head(s) \in {" ", "\t"} /\ (rest = <<>> \/ Head(rest) = "\n")
           THEN rest
           ELSE <<Head(s)>> \o rest

\* the same steps with the trailing blanks trimmed before the bidi
\* formatting is stripped
canonicalizeTextTrimFirst(s) ==
  Filter(TrimLineEnds(MapChar(Filter(s, {"\r"}), NBSP, " ")), BidiMarks)

\* canonicalizeText of shared/canonical.js: CR removed, NBSP replaced by a
\* space, bidi formatting stripped, trailing blanks of every line trimmed
canonicalizeText(s) ==
  TrimLineEnds(Filter(MapChar(Filter(s, {"\r"}), NBSP, " "), BidiMarks))

\* ------------------------------------------------------------------------
\* Diff engine: helpers shared by every stage (workers/diff-core.js)
\* ------------------------------------------------------------------------
RECURSIVE SplitOn(_, _, _)
\* String.prototype.split('\n'): the pieces between separators
SplitOn(s, cur, sep) ==
  IF s = <<>> THEN <<cur>>
  ELSE IF Head(s) = sep THEN <<cur>> \o SplitOn(Tail(s), <<>>, sep)
       ELSE SplitOn(Tail(s), Append(cur, Head(s)), sep)

\* every line but the last keeps its newline
splitLinesKeepNL(s) ==
  LET parts == SplitOn(s, <<>>, "\n")
  IN  [i \in 1..Len(parts) |->
         IF i = Len(parts) THEN parts[i] ELSE Append(parts[i], "\n")]

toChars(s) == [i \in 1..Len(s) |-> <<s[i]>>]

\* character classes of the token regex: \s | letters, digits, marks | other
IsSpace(c) == c \in {" ", "\n", "\r", "\t", NBSP}
\* neither white space nor letter, digit or mark: a token of its own
IsOther(c) == c \in {"!"} \cup BidiMarks
IsWordChar(c) == ~IsSpace(c) /\ ~IsOther(c)

RECURSIVE toTokensFrom(_, _)
\* /\s+|[\p{L}\p{Nd}\p{M}]+|[^\s\p{L}\p{Nd}\p{M}]/gu
toTokensFrom(s, cur) ==
  IF s = <<>> THEN (IF cur = <<>> THEN <<>> ELSE <<cur>>)
  ELSE LET c == Head(s)
           same == /\ cur # <<>>
                   /\ \/ IsSpace(c) /\ IsSpace(cur[1])
                      \/ IsWordChar(c) /\ IsWordChar(cur[1])
       IN  IF same THEN toTokensFrom(Tail(s), Append(cur, c))
           ELSE (IF cur = <<>> THEN <<>> ELSE <<cur>>) \o toTokensFrom(Tail(s), <<c>>)

toTokens(s) == toTokensFrom(s, <<>>)

RECURSIVE commonPrefixFrom(_, _, _)
commonPrefixFrom(a, b, i) ==
  IF i < Min(Len(a), Len(b)) /\ a[i + 1] = b[i + 1]
  THEN commonPrefixFrom(a, b, i + 1) ELSE i

commonPrefixLen(a, b) == commonPrefixFrom(a, b, 0)

RECURSIVE commonSuffixFrom(_, _, _)
commonSuffixFrom(a, b, i) ==
  IF i < Min(Len(a), Len(b)) /\ a[Len(a) - i] = b[Len(b) - i]
  THEN commonSuffixFrom(a, b, i + 1) ELSE i

commonSuffixLen(a, b) == commonSuffixFrom(a, b, 0)

Op(code, str) == [op |-> code, s |-> str]

RECURSIVE normalizeFrom(_, _)
normalizeFrom(diffs, out) ==
  IF diffs = <<>> THEN out
  ELSE LET d == Head(diffs)
       IN  IF d.s = <<>> THEN normalizeFrom(Tail(diffs), out)
           ELSE IF out # <<>> /\ out[Len(out)].op = d.op
                THEN normalizeFrom(Tail(diffs),
                       [out EXCEPT ![Len(out)].s = @ \o d.s])
                ELSE normalizeFrom(Tail(diffs), Append(out, d))

\* drop empty payloads, merge neighbours of one code
normalizeDiffs(diffs) == normalizeFrom(diffs, <<>>)

RECURSIVE coalesceFrom(_, _)
coalesceFrom(diffs, out) ==
  IF diffs = <<>> THEN out
  ELSE LET d == Head(diffs)
       IN  IF out # <<>> /\ out[Len(out)].op = d.op
           THEN coalesceFrom(Tail(diffs), [out EXCEPT ![Len(out)].s = @ \o d.s])
           ELSE coalesceFrom(Tail(diffs), Append(out, d))

\* merge neighbours of one code; an empty payload is kept
coalesceSeq(diffs) == coalesceFrom(diffs, <<>>)

RECURSIVE Reverse(_)
Reverse(s) == IF s = <<>> THEN <<>> ELSE Append(Reverse(Tail(s)), Head(s))

RECURSIVE pushEquals(_, _, _, _, _)
\* while (x > stopX && y > stopY) { diffs.push([0, a[x-1]]); x--; y--; }
pushEquals(a, x, y, stopX, stopY) ==
  IF x > stopX /\ y > stopY
  THEN <<Op(0, At(a, x - 1))>> \o pushEquals(a, x - 1, y - 1, stopX, stopY)
  ELSE <<>>

RECURSIVE pushRest(_, _, _)
\* while (x > 0) { diffs.push([code, a[--x]]); }
pushRest(a, x, code) ==
  IF x > 0 THEN <<Op(code, At(a, x - 1))>> \o pushRest(a, x - 1, code) ELSE <<>>

\* reconstruct_new: payloads of the ops whose code is not -1
RECURSIVE reconstructNew(_)
reconstructNew(ops) ==
  IF ops = <<>> THEN <<>>
  ELSE (IF Head(ops).op = -1 THEN <<>> ELSE Head(ops).s) \o reconstructNew(Tail(ops))

\* reconstruct_old: payloads of the ops whose code is not +1
RECURSIVE reconstructOld(_)
reconstructOld(ops) ==
  IF ops = <<>> THEN <<>>
  ELSE (IF Head(ops).op = 1 THEN <<>> ELSE Head(ops).s) \o reconstructOld(Tail(ops))

\* ------------------------------------------------------------------------
\* Myers O(ND) over arrays of strings (myersDiffSeq / backtrackSeq)
\* v and every trace row are Int32Arrays indexed 0..2*max, offset = max
\* ------------------------------------------------------------------------
RECURSIVE snake(_, _, _, _)
\* while (x < N && y < M && a[x] === b[y]) { x++; y++; }   returns the new x
snake(a, b, x, y) ==
  IF x < Len(a) /\ y < Len(b) /\ y >= 0 /\ a[x + 1] = b[y + 1]
  THEN snake(a, b, x + 1, y + 1) ELSE x

\* the move chosen on diagonal k in round d, read from row v
goesDown(v, k, d, offset) ==
  \/ k = -d
  \/ k # d /\ v[k + offset - 1] < v[k + offset + 1]

\* trace row read by backtrackSeq for the end point of round D-1: trace[D - 1]
\* (the trace is 0-based in the code, 1-based here)
prevRow(trace, D) == trace[D]

RECURSIVE backtrackFrom(_, _, _, _, _, _, _, _)
\* the reverse-order op list built by the for (D = d; D > 0; D--) loop,
\* followed by what the loops after it push
backtrackFrom(a, b, trace, k, x, y, D, offset) ==
  IF D > 0
  THEN LET v     == trace[D + 1]
           prevK == IF goesDown(v, k, D, offset) THEN k + 1 ELSE k - 1
           prevX == prevRow(trace, D)[prevK + offset]
           prevY == prevX - prevK
           eq    == pushEquals(a, x, y, prevX, prevY)
           x1    == x - Len(eq)
           step  == IF x1 = prevX THEN Op(1, At(b, prevY)) ELSE Op(-1, At(a, prevX))
       IN  eq \o <<step>> \o backtrackFrom(a, b, trace, prevK, prevX, prevY, D - 1, offset)
  ELSE LET eq == pushEquals(a, x, y, 0, 0)
           x1 == x - Len(eq)
           y1 == y - Len(eq)
       IN  eq \o pushRest(a, x1, -1) \o pushRest(b, y1, 1)

backtrackSeq(a, b, trace, k, x, y, d, offset) ==
  coalesceSeq(Reverse(backtrackFrom(a, b, trace, k, x, y, d, offset)))

RECURSIVE myersRound(_, _, _, _, _, _)
\* one step of the (d, k) double loop; trace already holds the row of round d
myersRound(a, b, v, trace, d, k) ==
  LET N == Len(a)
      M == Len(b)
      max == N + M
      offset == max
  IN  IF d > max THEN <<Op(0, Join(a))>>
      ELSE IF k > d THEN myersRound(a, b, v, Append(trace, v), d + 1, -(d + 1))
      ELSE LET idx == k + offset
               x0  == IF goesDown(v, k, d, offset) THEN v[idx + 1] ELSE v[idx - 1] + 1
               x   == snake(a, b, x0, x0 - k)
               y   == x - k
               v1  == [v EXCEPT ![idx] = x]
           IN  IF x >= N /\ y >= M
               THEN backtrackSeq(a, b, trace, k, x, y, d, offset)
               ELSE myersRound(a, b, v1, trace, d, k + 2)

\* myersDiffSeq(a, b, joiner) with joiner = arr.join('').  With two empty
\* arrays v has one cell, v[idx + 1] is undefined, no end point is ever
\* recognised and the function falls through to [[0, joiner(a)]].
myersDiffSeq(a, b) ==
  LET max == Len(a) + Len(b)
      v0  == [i \in 0..(2 * max) |-> 0]
  IN  IF max = 0 THEN <<Op(0, <<>>)>>
      ELSE myersRound(a, b, v0, <<v0>>, 0, 0)

\* ------------------------------------------------------------------------
\* Refinement stages
\* ------------------------------------------------------------------------
\* strip the common prefix and suffix of two arrays, diff the middle with
\* Myers, put the prefix and suffix back as equal ops, normalise
trimmedDiff(aAll, bAll) ==
  LET pre   == commonPrefixLen(aAll, bAll)
      post  == commonSuffixLen(Slice(aAll, pre, Len(aAll)), Slice(bAll, pre, Len(bAll)))
      aMid  == Slice(aAll, pre, Len(aAll) - post)
      bMid  == Slice(bAll, pre, Len(bAll) - post)
      mid   == myersDiffSeq(aMid, bMid)
      head  == IF pre > 0 THEN <<Op(0, Join(Slice(aAll, 0, pre)))>> ELSE <<>>
      tail  == IF post > 0 THEN <<Op(0, Join(Slice(aAll, Len(aAll) - post, Len(aAll))))>> ELSE <<>>
  IN  normalizeDiffs(head \o mid \o tail)

\* the same without the final normalizeDiffs (the first fallback of the worker)
trimmedRaw(aAll, bAll) ==
  LET pre   == commonPrefixLen(aAll, bAll)
      post  == commonSuffixLen(Slice(aAll, pre, Len(aAll)), Slice(bAll, pre, Len(bAll)))
      aMid  == Slice(aAll, pre, Len(aAll) - post)
      bMid  == Slice(bAll, pre, Len(bAll) - post)
      head  == IF pre > 0 THEN <<Op(0, Join(Slice(aAll, 0, pre)))>> ELSE <<>>
      tail  == IF post > 0 THEN <<Op(0, Join(Slice(aAll, Len(aAll) - post, Len(aAll))))>> ELSE <<>>
  IN  head \o myersDiffSeq(aMid, bMid) \o tail

\* char-level diff of two strings (v2 diff-core.js and diff-worker.js)
charDiffStrings(aStr, bStr) == trimmedDiff(toChars(aStr), toChars(bStr))

\* token-level diff of two strings, not validated (workers/diff-core.js)
tokenDiffStrings(aStr, bStr) == trimmedDiff(toTokens(aStr), toTokens(bStr))

\* token-level diff of diff-worker.js: validated against both inputs, with
\* the char-level diff as its fallback
tokenDiffStringsW(aStr, bStr) ==
  LET diffs == tokenDiffStrings(aStr, bStr)
  IN  IF reconstructNew(diffs) = bStr /\ reconstructOld(diffs) = aStr
      THEN diffs ELSE charDiffStrings(aStr, bStr)

\* the refinement each file applies to a (deleted chunk, inserted chunk) pair
refine(mode, old, new) ==
  CASE mode = "token"  -> tokenDiffStrings(old, new)
    [] mode = "char"   -> charDiffStrings(old, new)
    [] mode = "tokenW" -> tokenDiffStringsW(old, new)

RECURSIVE pushMerged(_, _)
\* for (const d of refined) { if (L && out[L-1][0] === d[0]) out[L-1][1] += d[1]; else out.push(d) }
pushMerged(out, refined) ==
  IF refined = <<>> THEN out
  ELSE LET d == Head(refined)
       IN  IF out # <<>> /\ out[Len(out)].op = d.op
           THEN pushMerged([out EXCEPT ![Len(out)].s = @ \o d.s], Tail(refined))
           ELSE pushMerged(Append(out, d), Tail(refined))

flushBuf(buf, code) == [i \in 1..Len(buf) |-> Op(code, buf[i])]

RECURSIVE pairLines(_, _, _, _, _)
\* the loop over the line-level ops: a deleted chunk and an inserted chunk
\* that meet are refined together, the others wait in delBuf / insBuf
pairLines(mode, lineDiffs, out, delBuf, insBuf) ==
  IF lineDiffs = <<>>
  THEN out \o flushBuf(delBuf, -1) \o flushBuf(insBuf, 1)
  ELSE LET d    == Head(lineDiffs)
           rest == Tail(lineDiffs)
       IN  CASE d.op = 0 ->
                  pairLines(mode, rest,
                            out \o flushBuf(delBuf, -1) \o flushBuf(insBuf, 1) \o <<d>>,
                            <<>>, <<>>)
             [] d.op = -1 ->
                  IF insBuf # <<>>
                  THEN pairLines(mode, rest, pushMerged(out, refine(mode, d.s, Head(insBuf))),
                                 delBuf, Tail(insBuf))
                  ELSE pairLines(mode, rest, out, Append(delBuf, d.s), insBuf)
             [] d.op = 1 ->
                  IF delBuf # <<>>
                  THEN pairLines(mode, rest, pushMerged(out, refine(mode, Head(delBuf), d.s)),
                                 Tail(delBuf), insBuf)
                  ELSE pairLines(mode, rest, out, delBuf, Append(insBuf, d.s))

\* ------------------------------------------------------------------------
\* diffStrings of workers/diff-core.js: line anchors, Myers over the middle
\* lines, token refinement; its result is returned without any validation
\* ------------------------------------------------------------------------
diffStrings(a, b) ==
  LET aLines == splitLinesKeepNL(a)
      bLines == splitLinesKeepNL(b)
      pre    == commonPrefixLen(aLines, bLines)
      post   == commonSuffixLen(Slice(aLines, pre, Len(aLines)), Slice(bLines, pre, Len(bLines)))
      aMid   == Slice(aLines, pre, Len(aLines) - post)
      bMid   == Slice(bLines, pre, Len(bLines) - post)
      diffs  == myersDiffSeq(aMid, bMid)
      head   == IF pre > 0 THEN <<Op(0, Join(Slice(aLines, 0, pre)))>> ELSE <<>>
      tail   == IF post > 0 THEN <<Op(0, Join(Slice(aLines, Len(aLines) - post, Len(aLines))))>> ELSE <<>>
  IN  IF aMid = <<>> /\ bMid = <<>> THEN normalizeDiffs(<<Op(0, a)>>)
      ELSE normalizeDiffs(pairLines("token", diffs, head, <<>>, <<>>) \o tail)

\* ------------------------------------------------------------------------
\* diffStrings of v2/workers/diff-core.js: granular diff, then the char diff
\* of the whole text, then delete-all/insert-all, each accepted only if it
\* reconstructs both inputs up to canon
\* ------------------------------------------------------------------------
granularDiff(mode, baseText, nextText) ==
  LET aLines == splitLinesKeepNL(baseText)
      bLines == splitLinesKeepNL(nextText)
      pre    == commonPrefixLen(aLines, bLines)
      post   == commonSuffixLen(Slice(aLines, pre, Len(aLines)), Slice(bLines, pre, Len(bLines)))
      aMid   == Slice(aLines, pre, Len(aLines) - post)
      bMid   == Slice(bLines, pre, Len(bLines) - post)
      head   == IF pre > 0 THEN <<Op(0, Join(Slice(aLines, 0, pre)))>> ELSE <<>>
      tail   == IF post > 0 THEN <<Op(0, Join(Slice(aLines, Len(aLines) - post, Len(aLines))))>> ELSE <<>>
      mid    == IF aMid = <<>> /\ bMid = <<>> THEN head
                ELSE IF Len(aMid) = 1 /\ Len(bMid) = 1
                     THEN pushMerged(head, refine(mode, aMid[1], bMid[1]))
                     ELSE pairLines(mode, myersDiffSeq(aMid, bMid), head, <<>>, <<>>)
  IN  mid \o tail

roundTrips(ops, a, b) ==
  canon(reconstructNew(ops)) = canon(b) /\ canon(reconstructOld(ops)) = canon(a)

deleteInsertAll(a, b) ==
  (IF a # <<>> THEN <<Op(-1, a)>> ELSE <<>>) \o (IF b # <<>> THEN <<Op(1, b)>> ELSE <<>>)

diffStringsV2(a, b) ==
  LET first  == normalizeDiffs(granularDiff("char", a, b))
      second == normalizeDiffs(charDiffStrings(a, b))
  IN  IF roundTrips(first, a, b) THEN first
      ELSE IF roundTrips(second, a, b) THEN second
      ELSE deleteInsertAll(a, b)

\* ------------------------------------------------------------------------
\* The diff worker (v2/workers/diff-worker.js, onmessage type 'diff')
\* ------------------------------------------------------------------------
\* canon of the worker: \r removed (NBSP, bidi marks and NFC do not occur in
\* the alphabet)
canonW(s) == Filter(s, {"\r"})

\* exact reconstruction, the acceptance test of the two imported libraries
exactRoundTrip(ds, a, b) == reconstructNew(ds) = b /\ reconstructOld(ds) = a

\* what an imported diff library returns when the import succeeds: the
\* changed middle between the common head and tail of the two arrays
\* (diffWordsWithSpace over tokens, diff_main over characters)
libDiff(aAll, bAll) ==
  LET pre   == commonPrefixLen(aAll, bAll)
      post  == commonSuffixLen(Slice(aAll, pre, Len(aAll)), Slice(bAll, pre, Len(bAll)))
      aMid  == Slice(aAll, pre, Len(aAll) - post)
      bMid  == Slice(bAll, pre, Len(bAll) - post)
      head  == IF pre > 0 THEN <<Op(0, Join(Slice(aAll, 0, pre)))>> ELSE <<>>
      tail  == IF post > 0 THEN <<Op(0, Join(Slice(aAll, Len(aAll) - post, Len(aAll))))>> ELSE <<>>
      del   == IF aMid # <<>> THEN <<Op(-1, Join(aMid))>> ELSE <<>>
      ins   == IF bMid # <<>> THEN <<Op(1, Join(bMid))>> ELSE <<>>
  IN  head \o del \o ins \o tail

\* okNew && okOld of the worker: both texts reconstructed up to canon
okCanon(ds, baseText, nextText) ==
  canonW(reconstructNew(ds)) = canonW(nextText)
    /\ canonW(reconstructOld(ds)) = canonW(baseText)

\* an empty granular diff is replaced by the trimmed token diff
firstStage(g, baseText, nextText) ==
  IF g = <<>> THEN trimmedRaw(toTokens(baseText), toTokens(nextText)) ELSE g

\* the fallbacks after a diff that does not reconstruct both texts:
\* jsdiff -> trimmed char diff -> diff-match-patch -> delete-all/insert-all
fallbackChain(jsd, chr, dmp, baseText, nextText, jsdiffOk, dmpOk) ==
  IF jsdiffOk /\ jsd # <<>> /\ exactRoundTrip(jsd, baseText, nextText) THEN jsd
  ELSE IF okCanon(chr, baseText, nextText) THEN chr
  ELSE IF dmpOk /\ dmp # <<>> /\ exactRoundTrip(dmp, baseText, nextText) THEN dmp
  ELSE deleteInsertAll(baseText, nextText)

\* the validation of the first stage and what follows it
validated(first, baseText, nextText, jsdiffOk, dmpOk) ==
  IF okCanon(first, baseText, nextText) THEN first
  ELSE fallbackChain(normalizeDiffs(libDiff(toTokens(baseText), toTokens(nextText))),
                     trimmedRaw(toChars(baseText), toChars(nextText)),
                     libDiff(toChars(baseText), toChars(nextText)),
                     baseText, nextText, jsdiffOk, dmpOk)

\* the 'diff' request.  jsdiffOk / dmpOk say whether the import from the
\* network succeeded for this request.
workerDiff(baseText, nextText, jsdiffOk, dmpOk) ==
  validated(firstStage(granularDiff("tokenW", baseText, nextText), baseText, nextText),
            baseText, nextText, jsdiffOk, dmpOk)

\* every answer the 'diff' request can give, over the outcomes of its two
\* imports from the network; the imports run only when the first stage does
\* not pass validation
answers(first, baseText, nextText) ==
  IF okCanon(first, baseText, nextText) THEN {first}
  ELSE {validated(first, baseText, nextText, j, m) : j \in BOOLEAN, m \in BOOLEAN}

workerDiffs(baseText, nextText) ==
  answers(firstStage(granularDiff("tokenW", baseText, nextText), baseText, nextText),
          baseText, nextText)

\* null (parentVersion = null, pendingDelStart = null)
Null == -1

\* ------------------------------------------------------------------------
\* Auto-merge of tryMerge (v2/ui/controls.js)
\* ------------------------------------------------------------------------
RECURSIVE toEditsFrom(_, _, _, _)
\* toEdits(base, diffs): pendStart = Null when no deletion is pending
toEditsFrom(diffs, pos, pendStart, pendLen) ==
  IF diffs = <<>>
  THEN (IF pendStart # Null
        THEN <<[start |-> pendStart, end |-> pendStart + pendLen, ins |-> <<>>]>>
        ELSE <<>>)
  ELSE LET d    == Head(diffs)
           n    == Len(d.s)
           rest == Tail(diffs)
       IN  CASE d.op = 0 ->
                  (IF pendStart # Null
                   THEN <<[start |-> pendStart, end |-> pendStart + pendLen, ins |-> <<>>]>>
                   ELSE <<>>) \o toEditsFrom(rest, pos + n, Null, 0)
             [] d.op = -1 ->
                  IF pendStart = Null
                  THEN toEditsFrom(rest, pos + n, pos, n)
                  ELSE toEditsFrom(rest, pos + n, pendStart, pendLen + n)
             [] d.op = 1 ->
                  IF pendStart # Null
                  THEN <<[start |-> pendStart, end |-> pendStart + pendLen, ins |-> d.s]>>
                         \o toEditsFrom(rest, pos, Null, 0)
                  ELSE <<[start |-> pos, end |-> pos, ins |-> d.s]>>
                         \o toEditsFrom(rest, pos, Null, 0)

\* toEdits without the flush of a pending deletion at the end of the stream
toEditsNoFinalFlush(diffs) ==
  LET edits == toEditsFrom(diffs, 0, Null, 0)
  IN  IF diffs # <<>> /\ diffs[Len(diffs)].op = -1
      THEN SubSeq(edits, 1, Len(edits) - 1)
      ELSE edits

toEdits(diffs) == toEditsFrom(diffs, 0, Null, 0)

\* overlaps without its insertion cases: only the range test
overlapsRangesOnly(a, b) == a.start < b.end /\ b.start < a.end

overlaps(a, b) ==
  LET aIns == a.start = a.end
      bIns == b.start = b.end
  IN  IF aIns /\ bIns THEN a.start = b.start
      ELSE IF aIns THEN a.start >= b.start /\ a.start < b.end
      ELSE IF bIns THEN b.start >= a.start /\ b.start < a.end
      ELSE a.start < b.end /\ b.start < a.end

\* the two nested loops that look for an overlapping pair
anyOverlap(editsLatest, editsMine) ==
  \E i \in 1..Len(editsLatest), j \in 1..Len(editsMine) :
    overlaps(editsLatest[i], editsMine[j])

\* the comparator turned round: ascending starts
sortsBeforeAscending(a, b) == a.start < b.start \/ (a.start = b.start /\ a.end < b.end)

\* a sorts before b under (a, b) => b.start - a.start || b.end - a.end
sortsBefore(a, b) == a.start > b.start \/ (a.start = b.start /\ a.end > b.end)

RECURSIVE sortEdits(_)
\* Array.prototype.sort with that comparator (stable)
sortEdits(es) ==
  IF es = <<>> THEN <<>>
  ELSE LET i == CHOOSE k \in 1..Len(es) :
                  /\ \A j \in 1..Len(es) : ~sortsBefore(es[j], es[k])
                  /\ \A j \in 1..(k - 1) : sortsBefore(es[k], es[j])
       IN  <<es[i]>> \o sortEdits(SubSeq(es, 1, i - 1) \o SubSeq(es, i + 1, Len(es)))

RECURSIVE applyEdits(_, _)
\* merged = merged.slice(0, e.start) + e.ins + merged.slice(e.end), in order
applyEdits(text, es) ==
  IF es = <<>> THEN text
  ELSE LET e == Head(es)
       IN  applyEdits(Slice(text, 0, e.start) \o e.ins \o Slice(text, e.end, Len(text)),
                      Tail(es))

\* the merged text of tryMerge for the two diffs it got from the worker
mergedText(baseText, diffsA, diffsB) ==
  applyEdits(baseText, sortEdits(toEdits(diffsA) \o toEdits(diffsB)))

\* ------------------------------------------------------------------------
\* Hashing, rows and reads of the versioned store (data/api.js)
\* ------------------------------------------------------------------------
\* sha256Hex(text): injective on the texts of the model; '' is <<>>
sha256Hex(t) == <<"sha256:">> \o t

\* "no row" (maybeSingle() returned null)
NoRow == [version |-> 0, text |-> <<>>, base_sha256 |-> <<>>]

\* select ... order('version', desc).limit(1).maybeSingle()
getLatestTranscript(tbl) ==
  IF tbl = {} THEN NoRow
  ELSE CHOOSE r \in tbl : \A q \in tbl : q.version <= r.version

\* select ... eq('version', v).maybeSingle()
getTranscriptVersion(tbl, v) ==
  IF \E r \in tbl : r.version = v
  THEN CHOOSE r \in tbl : r.version = v
  ELSE NoRow

RECURSIVE getTranscriptEdits(_)
\* select ... order('child_version', asc)
getTranscriptEdits(tbl) ==
  IF tbl = {} THEN <<>>
  ELSE LET e == CHOOSE r \in tbl : \A q \in tbl : r.child_version <= q.child_version
       IN  <<e>> \o getTranscriptEdits(tbl \ {e})

\* insert(row) into transcripts; (file_path, version) is the key of the
\* table, a second row with the same version is refused by the database
DbInsertOk(tbl, row) == ~\E r \in tbl : r.version = row.version

RECURSIVE replayEdits(_, _)
\* the loop of verifyChainHash: <<TRUE, text>> after all edits, or
\* <<FALSE, child_version>> at the first edit whose old side is not the text
replayEdits(text, edits) ==
  IF edits = <<>> THEN <<TRUE, text>>
  ELSE LET e == Head(edits)
       IN  IF canonicalizeText(reconstructOld(e.ops)) # text
           THEN <<FALSE, e.child_version>>
           ELSE replayEdits(reconstructNew(e.ops), Tail(edits))

\* what verifyChainHash returns: ok, and reason / at / got / expected where
\* the returned object has them ("none", 0 and <<>> where it has not)
Verdict(ok, reason, at, got, expected) ==
  [ok |-> ok, reason |-> reason, at |-> at, got |-> got, expected |-> expected]

\* verifyChainHash that takes a replay without error for a verified chain:
\* the comparison h === expected is missing from its last line
verifyChainHashNoCompare(latest, v1, edits) ==
  IF latest.version = 0 THEN Verdict(TRUE, "no-version", 0, <<>>, <<>>)
  ELSE IF v1.version = 0 THEN Verdict(FALSE, "missing-v1", 0, <<>>, <<>>)
  ELSE LET r == replayEdits(canonicalizeText(v1.text), edits)
       IN  IF ~r[1] THEN Verdict(FALSE, "ops-dont-match-parent", r[2], <<>>, <<>>)
           ELSE Verdict(latest.base_sha256 # <<>>, "none", 0, sha256Hex(r[2]),
                        latest.base_sha256)

\* verifyChainHash of history/verify-chain.js on the three values it read
verifyChainHash(latest, v1, edits) ==
  IF latest.version = 0 THEN Verdict(TRUE, "no-version", 0, <<>>, <<>>)
  ELSE IF v1.version = 0 THEN Verdict(FALSE, "missing-v1", 0, <<>>, <<>>)
  ELSE LET r == replayEdits(canonicalizeText(v1.text), edits)
       IN  IF ~r[1] THEN Verdict(FALSE, "ops-dont-match-parent", r[2], <<>>, <<>>)
           ELSE Verdict(latest.base_sha256 # <<>> /\ sha256Hex(r[2]) = latest.base_sha256,
                        "none", 0, sha256Hex(r[2]), latest.base_sha256)

\* the replay of verifyChainHashV2, entered when the direct comparison
\* failed; h is the hash of the latest text
diagnoseChain(h, expected, v1, edits) ==
  IF v1.version = 0 THEN Verdict(FALSE, "missing-v1", 0, h, expected)
  ELSE LET r == replayEdits(canonicalizeText(v1.text), edits)
       IN  IF ~r[1] THEN Verdict(FALSE, "ops-dont-match-parent", r[2], h, expected)
           ELSE IF sha256Hex(r[2]) = expected
                THEN Verdict(TRUE, "none", 0, <<>>, expected)
                ELSE Verdict(FALSE, "direct-mismatch", 0, h, expected)

\* verifyChainHash as v2/history/panel.js carries it: the hash of the latest
\* text is compared with base_sha256 first, and the edit records are only
\* replayed ("optional: try to diagnose") when that comparison fails
verifyChainHashV2(latest, v1, edits) ==
  IF latest.version = 0 THEN Verdict(TRUE, "no-version", 0, <<>>, <<>>)
  ELSE IF latest.base_sha256 # <<>>
          /\ sha256Hex(canonicalizeText(latest.text)) = latest.base_sha256
       THEN Verdict(TRUE, "none", 0, <<>>, latest.base_sha256)
  ELSE diagnoseChain(sha256Hex(canonicalizeText(latest.text)), latest.base_sha256,
                     v1, edits)

\* ------------------------------------------------------------------------
\* State
\* ------------------------------------------------------------------------
VARIABLES
  caseA,    \* runCase: the old text handed to the diff engine
  caseB,    \* runCase: the new text handed to the diff engine
  engine,   \* which diffStrings produced ops ("none" before the call)
  ops       \* the ops the engine returned

VARIABLES
  transcripts,       \* table transcripts of one file_path: rows version/text/base_sha256
  transcript_edits,  \* table transcript_edits: rows parent_version/child_version/ops
  pc,                \* per client: where its call of data/api.js or performSave stands
  call,              \* per client: arguments and locals of the running call
  ret,               \* per client: what saveTranscriptVersion returned or threw
  chk                \* per client: the values verifyChainHash has read so far

VARIABLES
  versions,       \* backend: the versions of the document, versions[n] is version n
  st,             \* store state of the page: version, base_sha256, liveText, baselineText
  saving,         \* let saving
  saveQueued,     \* let saveQueued
  idle,           \* what isIdle() answers
  inv,            \* the running invocations of performSave
  lastRequest,    \* whether the last save request was accepted or discarded
  mergeTry,       \* els.mergeTry.onclick: the tryMerge closure, if wired
  mrg             \* the running tryMerge

VARIABLES
  transcript_confirmations,  \* table transcript_confirmations of one (file_path, version)
  cw,     \* per client: the running saveConfirmations of data/api.js
  seen,   \* per client: what its last getConfirmations returned
  mk,     \* the running click handler of markReliable / markUnreliable
  modal   \* the conflict dialog: whether it is open, the text of its two panes

VARIABLES
  post,   \* performSave after its insert has committed, and its background alignment
  req,    \* the running saveTranscriptVersion of v2/data/api.js and its retry loop
  storedWords   \* backend: storedWords[n] is the word list persisted with version n

VARIABLES
  ld   \* the episode loader of the page: browser, search panel, words pager, loaded document

diffVars == <<caseA, caseB, engine, ops>>

loadVars == <<ld>>

flowVars == <<post, req, storedWords>>

confVars == <<transcript_confirmations, cw, seen, mk, modal>>

coordVars == <<versions, st, saving, saveQueued, idle, inv, lastRequest,
               mergeTry, mrg>>

storeVars == <<transcripts, transcript_edits, pc, call, ret, chk>>

vars == <<diffVars, storeVars, coordVars, flowVars, confVars, loadVars>>

\* what each part of the model leaves alone
outsideDiff == <<storeVars, coordVars, flowVars, confVars, loadVars>>
outsideStore == <<diffVars, loadVars, coordVars, flowVars, confVars>>
outsideCoord == <<diffVars, loadVars, storeVars, flowVars, confVars>>

Clients == {"c1", "c2"}

NoCall ==
  [caller |-> "none", parentVersion |-> Null, text |-> <<>>,
   expectedBaseSha256 |-> <<>>, version |-> 0, latestAtCall |-> 0,
   parentTextSnapshot |-> <<>>, patch |-> <<>>]

NoRet == [kind |-> "none", version |-> 0, base_sha256 |-> <<>>]

NoChk == [latest |-> NoRow, v1 |-> NoRow, result |-> Verdict(TRUE, "none", 0, <<>>, <<>>)]

\* nothing stored, no call running
StoreIdle ==
  /\ transcripts = {}
  /\ transcript_edits = {}
  /\ pc = [c \in Clients |-> "idle"]
  /\ call = [c \in Clients |-> NoCall]
  /\ ret = [c \in Clients |-> NoRet]
  /\ chk = [c \in Clients |-> NoChk]


\* the words of the conflict scenarios, cut to two letters each
Alpha == <<"a", "l">>
Bravo == <<"b", "r">>
BravoUpper == <<"B", "R">>
Beta == <<"b", "e">>
Charlie == <<"c", "h">>
Delta == <<"d", "e">>
Sp == <<" ">>

\* "alpha bravo charlie", "alpha BRAVO charlie", "alpha bravo charlie delta",
\* "alpha beta charlie" and the merge "alpha BRAVO charlie delta"
BaseText == Alpha \o Sp \o Bravo \o Sp \o Charlie
ClientText == Alpha \o Sp \o BravoUpper \o Sp \o Charlie
LatestText == BaseText \o Sp \o Delta
BetaText == Alpha \o Sp \o Beta \o Sp \o Charlie
MergedText == ClientText \o Sp \o Delta

\* concurrent calls of performSave in one page
MaxInvocations == 2

Slots == 1..MaxInvocations

mkRow(v, t) == [version |-> v, text |-> t, base_sha256 |-> sha256Hex(t)]

NoAnswer ==
  [kind |-> "none", version |-> 0, base_sha256 |-> <<>>, latest |-> NoRow, parent |-> NoRow]

NoInv ==
  [pc |-> "none", text |-> <<>>, version |-> 0, base_sha256 |-> <<>>,
   baselineText |-> <<>>, res |-> NoAnswer]

NoHandler == [wired |-> FALSE, latest |-> NoRow, parent |-> NoRow, text |-> <<>>]

NoMerge == [pc |-> "none", latest |-> NoRow, parent |-> NoRow, text |-> <<>>,
            editsLatest |-> <<>>, editsMine |-> <<>>, merged |-> <<>>,
            res |-> NoAnswer, toast |-> "none"]

\* the page before a document is loaded, an empty backend
\* no save has committed, no request is running
NoPost ==
  [pc |-> "none", bg |-> "none", tokens |-> <<>>, childV |-> 0,
   stats |-> [words |-> 0, seconds |-> 0], alignmentTriggered |-> FALSE,
   aligned |-> FALSE, verified |-> FALSE, received |-> <<>>]

NoReq ==
  [pc |-> "none", text |-> <<>>, words |-> <<>>, attempt |-> 0, delays |-> <<>>,
   outcome |-> "none"]

FlowIdle == post = NoPost /\ req = NoReq /\ storedWords = <<>>

\* no saveConfirmations, getConfirmations or mark click has run
NoWrite == [pc |-> "none", rows |-> {}]

\* marked: store.setConfirmedRanges has been called with the clicked range
NoMark ==
  [pc |-> "none", page |-> "none", txt |-> <<>>, base_sha256 |-> <<>>, ok |-> FALSE,
   marked |-> FALSE]

NoSeen == [read |-> FALSE, rows |-> {}]

\* the conflict dialog has not been rendered
NoDialog == [open |-> FALSE, diffParentLatest |-> <<>>, diffParentClient |-> <<>>]

\* renderConflict(els, payload), then mergeModal.open()
renderConflict(payload) ==
  [open |-> TRUE,
   diffParentLatest |-> payload.diff_parent_to_latest,
   diffParentClient |-> payload.diff_parent_to_client]

\* no episode has been requested, the store holds no document
LoadIdle ==
  ld = [desiredPath |-> "none", loadSeq |-> 0, requested |-> 0, loads |-> <<>>,
        tokens |-> [doc |-> "none", len |-> 0], liveText |-> "none",
        baselineText |-> "none", version |-> "none", confirmedRanges |-> "none",
        dataset |-> "none",
        pager |-> [running |-> FALSE, abort |-> FALSE, timer |-> FALSE, doc |-> "none",
                   version |-> "none", all |-> 0, pc |-> "idle"]]

ConfIdle ==
  /\ transcript_confirmations = {}
  /\ cw = [c \in Clients |-> NoWrite]
  /\ seen = [c \in Clients |-> NoSeen]
  /\ mk = NoMark
  /\ modal = NoDialog

CoordIdle ==
  /\ versions = <<>>
  /\ st = [version |-> 0, base_sha256 |-> <<>>, liveText |-> <<>>, baselineText |-> <<>>]
  /\ saving = FALSE
  /\ saveQueued = FALSE
  /\ idle = TRUE
  /\ inv = [i \in Slots |-> NoInv]
  /\ lastRequest = "none"
  /\ mergeTry = NoHandler
  /\ mrg = NoMerge

\* ------------------------------------------------------------------------
\* The diff engine on its own (runCase of the round-trip test)
\* ------------------------------------------------------------------------
\* the texts every caller hands to the engine are canonical
CanonicalStrings ==
  {s \in StringsUpTo(MaxLen) : canonicalizeText(s) = s /\ canon(s) = s}

DiffIdle ==
  /\ caseA = <<>>
  /\ caseB = <<>>
  /\ engine = "none"
  /\ ops = <<>>

DiffInit ==
  /\ caseA \in CanonicalStrings
  /\ caseB \in CanonicalStrings
  /\ engine = "none"
  /\ ops = <<>>
  /\ StoreIdle
  /\ CoordIdle
  /\ FlowIdle
  /\ ConfIdle
  /\ LoadIdle

\* diffStrings(a, b) of workers/diff-core.js
RunDiffStrings ==
  /\ engine = "none"
  /\ ops' = diffStrings(caseA, caseB)
  /\ engine' = "core"
  /\ UNCHANGED <<caseA, caseB, outsideDiff>>

\* diffStrings(a, b) of v2/workers/diff-core.js
RunDiffStringsV2 ==
  /\ engine = "none"
  /\ ops' = diffStringsV2(caseA, caseB)
  /\ engine' = "v2core"
  /\ UNCHANGED <<caseA, caseB, outsideDiff>>

NextDiff ==
  \/ RunDiffStrings
  \/ RunDiffStringsV2

SpecDiff == DiffInit /\ [][NextDiff]_vars

\* C1: for every pair of strings (a, b) the ops returned by the diff engine
\* satisfy reconstruct_new(ops) = canonicalize(b) and
\* reconstruct_old(ops) = canonicalize(a).
C1_RoundTrip ==
  engine # "none" =>
    /\ reconstructNew(ops) = canonicalizeText(caseB)
    /\ reconstructOld(ops) = canonicalizeText(caseA)


\* ------------------------------------------------------------------------
\* The versioned store reached through data/api.js (Supabase tables)
\* ------------------------------------------------------------------------
\* texts handed to saveTranscriptVersion
StoreTexts == {<<"a">>, <<"b">>}

LatestVersion == getLatestTranscript(transcripts).version

\* a caller invokes saveTranscriptVersion(filePath, {parentVersion, text,
\* words, expectedBaseSha256}); the function destructures parentVersion,
\* text and words only
ApiCall(c, p, t, e) ==
  /\ pc[c] = "idle"
  /\ p = Null \/ p < MaxVersion
  /\ call' = [call EXCEPT ![c] =
               [NoCall EXCEPT !.caller = "api", !.parentVersion = p, !.text = t,
                              !.expectedBaseSha256 = e,
                              !.latestAtCall = LatestVersion]]
  /\ pc' = [pc EXCEPT ![c] = "begin"]
  /\ UNCHANGED <<transcripts, transcript_edits, ret, chk, outsideStore>>

\* saveTranscriptVersion up to its insert: the hash, and the version number
\* (latest + 1 read from the table when parentVersion is null, else
\* Math.max(1, parentVersion + 1))
ApiBegin(c) ==
  /\ pc[c] = "begin"
  /\ LET p == call[c].parentVersion
         v == IF p = Null THEN LatestVersion + 1 ELSE Max(1, p + 1)
     IN  /\ v <= MaxVersion
         /\ call' = [call EXCEPT ![c].version = v]
  /\ pc' = [pc EXCEPT ![c] = "insert"]
  /\ UNCHANGED <<transcripts, transcript_edits, ret, chk, outsideStore>>

\* the insert of saveTranscriptVersion: the row goes in and {version,
\* base_sha256} comes back, or the database answers with an error (key
\* already there, or the request failed) and the function throws it
ApiInsert(c) ==
  /\ pc[c] = "insert"
  /\ LET row == [version |-> call[c].version, text |-> call[c].text,
                 base_sha256 |-> sha256Hex(call[c].text)]
     IN  \E fails \in BOOLEAN :
           IF DbInsertOk(transcripts, row) /\ ~fails
           THEN /\ transcripts' = transcripts \cup {row}
                /\ ret' = [ret EXCEPT ![c] =
                            [kind |-> "ok", version |-> row.version,
                             base_sha256 |-> row.base_sha256]]
           ELSE /\ transcripts' = transcripts
                /\ ret' = [ret EXCEPT ![c] = [NoRet EXCEPT !.kind = "error"]]
  /\ pc' = [pc EXCEPT ![c] = "done"]
  /\ UNCHANGED <<transcript_edits, call, chk, outsideStore>>

\* the caller has its answer
ApiReturn(c) ==
  /\ pc[c] = "done"
  /\ call[c].caller = "api"
  /\ pc' = [pc EXCEPT ![c] = "idle"]
  /\ call' = [call EXCEPT ![c] = NoCall]
  /\ ret' = [ret EXCEPT ![c] = NoRet]
  /\ UNCHANGED <<transcripts, transcript_edits, chk, outsideStore>>

StoreInit == StoreIdle /\ DiffIdle /\ CoordIdle /\ FlowIdle /\ ConfIdle /\ LoadIdle

NextStore ==
  \/ \E c \in Clients, p \in {Null} \cup (0..MaxVersion), t \in StoreTexts,
        e \in {<<>>} \cup {sha256Hex(x) : x \in StoreTexts} : ApiCall(c, p, t, e)
  \/ \E c \in Clients : ApiBegin(c)
  \/ \E c \in Clients : ApiInsert(c)
  \/ \E c \in Clients : ApiReturn(c)

SpecStore == StoreInit /\ [][NextStore]_vars



\* ------------------------------------------------------------------------
\* performSave of ui/controls.js on the Supabase tables: the version row is
\* written by saveTranscriptVersion and the edit record afterwards, by the
\* client, with saveTranscriptEdit
\* ------------------------------------------------------------------------
\* canonical editor texts (the empty one: an editor holding white space only)
LegacyTexts == {<<>>, <<"a">>, <<"b">>}

\* performSave up to its first await: saving = true, text canonicalized
LegacyPerformSave(c, t) ==
  /\ pc[c] = "idle"
  /\ call' = [call EXCEPT ![c] = [NoCall EXCEPT !.caller = "performSave", !.text = t]]
  /\ pc' = [pc EXCEPT ![c] = "probe"]
  /\ UNCHANGED <<transcripts, transcript_edits, ret, chk, outsideStore>>

\* latest = await getLatestTranscript(filePath); the no-op check against the
\* latest text; else the call of saveTranscriptVersion with parentVersion =
\* latest?.version ?? null
LegacyProbe(c) ==
  /\ pc[c] = "probe"
  /\ LET latest   == getLatestTranscript(transcripts)
         guess    == IF latest.version = 0 THEN Null ELSE latest.version
         snapshot == canonicalizeText(latest.text)
     IN  IF guess # Null /\ snapshot = call[c].text
         THEN /\ ret' = [ret EXCEPT ![c] = [NoRet EXCEPT !.kind = "nochange"]]
              /\ pc' = [pc EXCEPT ![c] = "finally"]
              /\ call' = call
         ELSE /\ call' = [call EXCEPT ![c].parentVersion = guess,
                                      ![c].parentTextSnapshot = snapshot,
                                      ![c].expectedBaseSha256 =
                                         IF latest.version = 0 THEN <<>> ELSE sha256Hex(latest.text),
                                      ![c].latestAtCall = latest.version]
              /\ pc' = [pc EXCEPT ![c] = "begin"]
              /\ ret' = ret
  /\ UNCHANGED <<transcripts, transcript_edits, chk, outsideStore>>

\* after saveTranscriptVersion: childV and parentV, or the catch block
LegacyAfterInsert(c) ==
  /\ pc[c] = "done"
  /\ call[c].caller = "performSave"
  /\ pc' = [pc EXCEPT ![c] =
             IF ret[c].kind # "ok" THEN "finally"
             ELSE IF ret[c].version > 1 THEN "parent" ELSE "verify"]
  /\ UNCHANGED <<transcripts, transcript_edits, call, ret, chk, outsideStore>>

\* parent = await getTranscriptVersion(filePath, parentV); parentText =
\* canonicalizeText(parent?.text || parentTextSnapshot || ''); the diff is
\* asked of the worker only if (parentText)
LegacyGetParent(c) ==
  /\ pc[c] = "parent"
  /\ LET parent     == getTranscriptVersion(transcripts, ret[c].version - 1)
         parentText == canonicalizeText(IF parent.text # <<>> THEN parent.text
                                        ELSE call[c].parentTextSnapshot)
     IN  IF parentText # <<>>
         THEN \E jsdiffOk \in BOOLEAN, dmpOk \in BOOLEAN :
                /\ call' = [call EXCEPT ![c].patch =
                              workerDiff(parentText, call[c].text, jsdiffOk, dmpOk)]
                /\ pc' = [pc EXCEPT ![c] = "edit"]
         ELSE /\ call' = call
              /\ pc' = [pc EXCEPT ![c] = "verify"]
  /\ UNCHANGED <<transcripts, transcript_edits, ret, chk, outsideStore>>

\* saveTranscriptEdit(filePath, parentV, childV, patchJson, patchJson): the
\* row goes in, or the insert fails and the function returns null
LegacySaveEdit(c) ==
  /\ pc[c] = "edit"
  /\ \E fails \in BOOLEAN :
       transcript_edits' =
         IF fails THEN transcript_edits
         ELSE transcript_edits \cup
                {[parent_version |-> ret[c].version - 1,
                  child_version |-> ret[c].version, ops |-> call[c].patch]}
  /\ pc' = [pc EXCEPT ![c] = "verify"]
  /\ UNCHANGED <<transcripts, call, ret, chk, outsideStore>>

\* verifyChainHash, first read: latest
LegacyVerifyLatest(c) ==
  /\ pc[c] = "verify"
  /\ chk' = [chk EXCEPT ![c].latest = getLatestTranscript(transcripts)]
  /\ pc' = [pc EXCEPT ![c] = "verifyV1"]
  /\ UNCHANGED <<transcripts, transcript_edits, call, ret, outsideStore>>

\* verifyChainHash, second read: version 1
LegacyVerifyV1(c) ==
  /\ pc[c] = "verifyV1"
  /\ chk' = [chk EXCEPT ![c].v1 = getTranscriptVersion(transcripts, 1)]
  /\ pc' = [pc EXCEPT ![c] = "verifyEdits"]
  /\ UNCHANGED <<transcripts, transcript_edits, call, ret, outsideStore>>

\* verifyChainHash, third read: the edits, their replay and the verdict
LegacyVerifyEdits(c) ==
  /\ pc[c] = "verifyEdits"
  /\ chk' = [chk EXCEPT ![c].result =
               verifyChainHash(chk[c].latest, chk[c].v1,
                               getTranscriptEdits(transcript_edits))]
  /\ pc' = [pc EXCEPT ![c] = "finally"]
  /\ UNCHANGED <<transcripts, transcript_edits, call, ret, outsideStore>>

\* finally { saving = false; ... }
LegacyFinally(c) ==
  /\ pc[c] = "finally"
  /\ pc' = [pc EXCEPT ![c] = "idle"]
  /\ call' = [call EXCEPT ![c] = NoCall]
  /\ ret' = [ret EXCEPT ![c] = NoRet]
  /\ chk' = [chk EXCEPT ![c] = NoChk]
  /\ UNCHANGED <<transcripts, transcript_edits, outsideStore>>

NextLegacy ==
  \/ \E c \in Clients, t \in LegacyTexts : LegacyPerformSave(c, t)
  \/ \E c \in Clients : LegacyProbe(c)
  \/ \E c \in Clients : ApiBegin(c)
  \/ \E c \in Clients : ApiInsert(c)
  \/ \E c \in Clients : LegacyAfterInsert(c)
  \/ \E c \in Clients : LegacyGetParent(c)
  \/ \E c \in Clients : LegacySaveEdit(c)
  \/ \E c \in Clients : LegacyVerifyLatest(c)
  \/ \E c \in Clients : LegacyVerifyV1(c)
  \/ \E c \in Clients : LegacyVerifyEdits(c)
  \/ \E c \in Clients : LegacyFinally(c)

SpecLegacy == StoreInit /\ [][NextLegacy]_vars

\* replaying v1 through the stored edit records gives the latest hash
ChainSound ==
  transcripts # {} =>
    verifyChainHash(getLatestTranscript(transcripts),
                    getTranscriptVersion(transcripts, 1),
                    getTranscriptEdits(transcript_edits)).ok

\* C2: for any document with versions v1..vk produced by any sequence of
\* saves, starting from v1.text and applying every stored EditRecord in
\* ascending child_version yields a string whose SHA-256 equals
\* vk.base_sha256 (looked at when no save is running).
C2_HashChainSound ==
  (\A c \in Clients : pc[c] = "idle") => ChainSound

\* the step in which client c's saveTranscriptVersion reaches the table
InsertStep(c) == pc[c] = "insert" /\ pc'[c] = "done"

\* C3: if several clients concurrently call insert on one document with the
\* same parent version p, p being the current latest, exactly one call
\* succeeds and creates version p+1, and every other call returns Conflict
\* whose latest.version is p+1.  (A Conflict answer would carry the latest
\* version in the version field of ret.)
C3_ConflictExclusivity ==
  \A c1 \in Clients, c2 \in Clients :
    ( /\ c1 # c2
      /\ pc[c1] = "done" /\ pc[c2] = "done"
      /\ call[c1].parentVersion # Null
      /\ call[c1].parentVersion = call[c2].parentVersion
      /\ call[c1].latestAtCall = call[c1].parentVersion
      /\ call[c2].latestAtCall = call[c2].parentVersion
      /\ ret[c1].kind = "ok" )
    => /\ ret[c1].version = call[c1].parentVersion + 1
       /\ ret[c2].kind = "conflict"
       /\ ret[c2].version = call[c1].parentVersion + 1

\* the version numbers of a table are exactly 1..k
GapFree(tbl) == {r.version : r \in tbl} = 1..Cardinality(tbl)

\* C4: after any sequence of successful and rejected inserts on one
\* document its version numbers are exactly 1..k with no gap and no
\* duplicate, and every successful insert returns a child version equal to
\* the previous latest version plus one.
C4_Sequential ==
  [][ /\ GapFree(transcripts')
      /\ \A c \in Clients :
           (InsertStep(c) /\ ret'[c].kind = "ok")
             => ret'[c].version = LatestVersion + 1 ]_vars

\* C7: an insert called with a parent_version that differs from the
\* document's current latest.version never creates a version; it is
\* rejected with Conflict{latest, parent}.
C7_StaleParentRejected ==
  [][ \A c \in Clients :
        ( /\ InsertStep(c)
          /\ call[c].parentVersion # Null
          /\ call[c].parentVersion # LatestVersion )
        => /\ transcripts' = transcripts
           /\ ret'[c].kind = "conflict" ]_vars

\* C8: an insert called with a parent_version and an expected_base_sha256
\* that differs from sha256(canonicalize(latest.text)) never creates a
\* version; it is rejected with Conflict.  (Stated for a parent_version that
\* is the latest one, so that only the hash can be the reason.)
C8_WrongHashRejected ==
  [][ \A c \in Clients :
        ( /\ InsertStep(c)
          /\ call[c].parentVersion # Null
          /\ LatestVersion # 0
          /\ call[c].parentVersion = LatestVersion
          /\ call[c].expectedBaseSha256 #
               sha256Hex(canonicalizeText(getLatestTranscript(transcripts).text)) )
        => /\ transcripts' = transcripts
           /\ ret'[c].kind = "conflict" ]_vars


\* ------------------------------------------------------------------------
\* The backend behind /transcripts/latest, /transcripts/get and
\* /transcripts/save (not part of the sources: modelled on the insert
\* contract of the store)
\* ------------------------------------------------------------------------
backendLatest(vs) == IF vs = <<>> THEN NoRow ELSE vs[Len(vs)]

backendGet(vs, n) == IF n \in 1..Len(vs) THEN vs[n] ELSE NoRow

\* the answer to insert(doc, parent_version, expected_base_sha256, text):
\* Conflict{latest, parent} (HTTP 409) or {version, base_sha256}
insertAnswer(vs, parentVersion, expected, text) ==
  LET latest   == backendLatest(vs)
      conflict == [NoAnswer EXCEPT !.kind = "conflict", !.latest = latest,
                                   !.parent = backendGet(vs, parentVersion)]
  IN  IF parentVersion # Null /\ latest.version # parentVersion THEN conflict
      ELSE IF parentVersion # Null
                /\ expected # sha256Hex(canonicalizeText(latest.text)) THEN conflict
      ELSE [NoAnswer EXCEPT !.kind = "ok", !.version = latest.version + 1,
                            !.base_sha256 = sha256Hex(canonicalizeText(text))]

\* a backend that stores the row whatever it answers
insertStoreAlways(vs, answer, text) ==
  Append(vs, mkRow(Len(vs) + 1, canonicalizeText(text)))

\* the versions after that insert
insertStore(vs, answer, text) ==
  IF answer.kind = "ok"
  THEN Append(vs, mkRow(answer.version, canonicalizeText(text)))
  ELSE vs

\* ------------------------------------------------------------------------
\* The save coordinator of v2/ui/controls.js
\* ------------------------------------------------------------------------
\* what the user types into the editor, what another writer saves
EditorTexts == {BaseText, ClientText}
WriterTexts == {LatestText, BetaText}

\* mayConfirmNow(): api.api is undefined, the call throws inside its try
mayConfirmNow == FALSE

\* Saving: saving = true is set and api.saveTranscriptVersion has not answered
SavingPcs == {"insert"}

\* a document is open: not versioned yet, or at version 1
CoordInit ==
  /\ \E loaded \in {0, 1} :
       /\ versions = IF loaded = 1 THEN <<mkRow(1, BaseText)>> ELSE <<>>
       /\ st = [version |-> loaded,
                base_sha256 |-> IF loaded = 1 THEN sha256Hex(BaseText) ELSE <<>>,
                liveText |-> BaseText, baselineText |-> BaseText]
  /\ saving = FALSE
  /\ saveQueued = FALSE
  /\ idle = TRUE
  /\ inv = [i \in Slots |-> NoInv]
  /\ lastRequest = "none"
  /\ mergeTry = NoHandler
  /\ mrg = NoMerge

Init == CoordInit /\ DiffIdle /\ StoreIdle /\ FlowIdle /\ ConfIdle /\ LoadIdle

\* the closure of a new call of performSave takes the first free slot
FreeSlot(i) == inv[i].pc = "none" /\ \A j \in 1..(i - 1) : inv[j].pc # "none"

\* performSave up to its first await: if (saving) return; st = getState();
\* text = canonicalizeText(st.liveText)
performSaveEntry(i) ==
  IF saving
  THEN /\ lastRequest' = "discarded"
       /\ inv' = inv
  ELSE /\ lastRequest' = "accepted"
       /\ inv' = [inv EXCEPT ![i] =
                   [NoInv EXCEPT !.pc = "probe",
                                 !.text = canonicalizeText(st.liveText),
                                 !.version = st.version,
                                 !.base_sha256 = st.base_sha256,
                                 !.baselineText = st.baselineText]]

\* the input handler of the editor: new live text, typing quiet window opens
Type(t) ==
  /\ t # st.liveText
  /\ st' = [st EXCEPT !.liveText = t]
  /\ idle' = FALSE
  /\ UNCHANGED <<versions, saving, saveQueued, inv, lastRequest, mergeTry, mrg, outsideCoord>>

\* the quiet window has passed and no diff or alignment is pending
Quiet ==
  /\ ~idle
  /\ idle' = TRUE
  /\ UNCHANGED <<versions, st, saving, saveQueued, inv, lastRequest, mergeTry, mrg, outsideCoord>>

\* click on submitBtn
ClickSubmit(i) ==
  /\ FreeSlot(i)
  /\ ~modal.open
  /\ IF ~idle
     THEN /\ saveQueued' = TRUE
          /\ lastRequest' = "accepted"
          /\ inv' = inv
     ELSE /\ performSaveEntry(i)
          /\ saveQueued' = saveQueued
  /\ UNCHANGED <<versions, st, saving, idle, mergeTry, mrg, outsideCoord>>

\* click on markReliable / markUnreliable: ok = await mayConfirmNow();
\* if (!ok) await performSave()
MarkClick(i) ==
  /\ FreeSlot(i)
  /\ ~modal.open
  /\ ~mayConfirmNow
  /\ performSaveEntry(i)
  /\ UNCHANGED <<versions, st, saving, saveQueued, idle, mergeTry, mrg,
                 outsideCoord>>

\* setInterval(checkQueuedSave, 200)
checkQueuedSave(i) ==
  /\ FreeSlot(i)
  /\ saveQueued /\ idle /\ ~saving
  /\ performSaveEntry(i)
  /\ UNCHANGED <<versions, st, saving, saveQueued, idle, mergeTry, mrg,
                 outsideCoord>>

\* latestProbe = await api.getLatestTranscript(filePath) has answered: the
\* early conflict check, else saving = true and the no-op check against
\* st.baselineText (whose return runs the finally block)
RECURSIVE serializeOps(_)
\* ops.map(x => x.join('\t')).join('\n')
serializeOps(diffs) ==
  IF diffs = <<>> THEN <<>>
  ELSE LET d == Head(diffs)
           code == IF d.op = -1 THEN <<"-", "1">> ELSE IF d.op = 1 THEN <<"1">> ELSE <<"0">>
           line == code \o <<"\t">> \o d.s
       IN  IF Tail(diffs) = <<>> THEN line ELSE line \o <<"\n">> \o serializeOps(Tail(diffs))

\* parentText = canonicalizeText(parent?.text || st.baselineText || '')
earlyParentText(parent, baselineText) ==
  canonicalizeText(IF parent.text # <<>> THEN parent.text ELSE baselineText)

\* the same payload with the two diffs in each other's place
earlyPayloadSwapped(latestProbe, parent, parentText, d1, d2) ==
  [reason |-> "version_conflict",
   latest |-> latestProbe,
   parent |-> [version |-> parent.version, base_sha256 |-> sha256Hex(parentText),
               text |-> parent.text],
   diff_parent_to_latest |-> serializeOps(d2),
   diff_parent_to_client |-> serializeOps(d1)]

\* payload of the early conflict check
earlyPayload(latestProbe, parent, parentText, d1, d2) ==
  [reason |-> "version_conflict",
   latest |-> latestProbe,
   parent |-> [version |-> parent.version, base_sha256 |-> sha256Hex(parentText),
               text |-> parent.text],
   diff_parent_to_latest |-> serializeOps(d1),
   diff_parent_to_client |-> serializeOps(d2)]

\* performSave behind the early check: saving = true, then the no-op check
\* against the baseline, then the insert
afterEarlyCheck(i) ==
  IF inv[i].version > 0 /\ canonicalizeText(inv[i].baselineText) = inv[i].text
  THEN /\ inv' = [inv EXCEPT ![i] = NoInv]
       /\ saving' = FALSE
       /\ saveQueued' = FALSE
  ELSE /\ inv' = [inv EXCEPT ![i].pc = "insert", ![i].res = NoAnswer]
       /\ saving' = TRUE
       /\ saveQueued' = saveQueued

ProbeReturn(i) ==
  /\ inv[i].pc = "probe"
  /\ LET latestProbe == backendLatest(versions)
         v == inv[i].version
     IN  IF latestProbe.version # 0 /\ v > 0 /\ latestProbe.version # v
         THEN /\ inv' = [inv EXCEPT ![i].pc = "probeConflict",
                                     ![i].res = [NoAnswer EXCEPT !.kind = "probe",
                                                                 !.latest = latestProbe]]
              /\ UNCHANGED <<saving, saveQueued>>
         ELSE afterEarlyCheck(i)
  /\ UNCHANGED <<versions, st, idle, lastRequest, mergeTry, mrg,
                 outsideCoord>>

\* what the steps of performSave leave alone when they render the dialog
outsideDialog == <<diffVars, loadVars, storeVars, flowVars, transcript_confirmations, cw, seen, mk>>

\* the early conflict check found a newer version: parent fetched, the two
\* diffs computed, renderConflict, return (and the finally block); the
\* handlers of the dialog are not touched
ProbeConflictShown(i) ==
  /\ inv[i].pc = "probeConflict"
  /\ LET parent == backendGet(versions, inv[i].version)
         latest == inv[i].res.latest
         parentText == earlyParentText(parent, inv[i].baselineText)
     IN  \E d1 \in workerDiffs(parentText, canonicalizeText(latest.text)),
            d2 \in workerDiffs(parentText, inv[i].text) :
           modal' = renderConflict(earlyPayload(latest, parent, parentText, d1, d2))
  /\ inv' = [inv EXCEPT ![i] = NoInv]
  /\ saving' = FALSE
  /\ saveQueued' = FALSE
  /\ UNCHANGED <<versions, st, idle, lastRequest, mergeTry, mrg, outsideDialog>>

\* a step of the early conflict check throws (the parent fetch fails, the
\* diff worker is not ready or has crashed, the import of the dialog fails):
\* catch {} and performSave goes on behind the check
ProbeConflictThrown(i) ==
  /\ inv[i].pc = "probeConflict"
  /\ afterEarlyCheck(i)
  /\ UNCHANGED <<versions, st, idle, lastRequest, mergeTry, mrg, outsideCoord>>

ProbeConflict(i) == ProbeConflictShown(i) \/ ProbeConflictThrown(i)

\* the backend handles the POST /transcripts/save of api.saveTranscriptVersion
BackendSave(i) ==
  /\ inv[i].pc = "insert"
  /\ LET parentVersionGuess == IF inv[i].version > 0 THEN inv[i].version ELSE Null
         answer == insertAnswer(versions, parentVersionGuess, inv[i].base_sha256,
                                inv[i].text)
     IN  /\ answer.kind = "ok" => Len(versions) < MaxVersion
         /\ versions' = insertStore(versions, answer, inv[i].text)
         /\ inv' = [inv EXCEPT ![i].res = answer,
                               ![i].pc = IF answer.kind = "ok" THEN "saved" ELSE "conflict"]
  /\ UNCHANGED <<st, saving, saveQueued, idle, lastRequest, mergeTry, mrg,
                 outsideCoord>>

\* res arrived: store.setState({version: childV, base_sha256}, 'version:saved')
SaveReturn(i) ==
  /\ inv[i].pc = "saved"
  /\ st' = [st EXCEPT !.version = inv[i].res.version,
                      !.base_sha256 = inv[i].res.base_sha256]
  /\ inv' = [inv EXCEPT ![i].pc = "refresh"]
  /\ UNCHANGED <<versions, saving, saveQueued, idle, lastRequest, mergeTry, mrg, outsideCoord>>

\* wordsNow = await api.getTranscriptWords(filePath, childV): tokens and live
\* text are replaced by the saved words
WordsReturn(i) ==
  /\ inv[i].pc = "refresh"
  /\ st' = [st EXCEPT !.liveText = backendGet(versions, inv[i].res.version).text]
  /\ inv' = [inv EXCEPT ![i].pc = "finishing"]
  /\ UNCHANGED <<versions, saving, saveQueued, idle, lastRequest, mergeTry, mrg, outsideCoord>>

\* alignment and chain verification are through: finally { saving = false;
\* saveQueued = false; ... }
Finally(i) ==
  /\ inv[i].pc = "finishing"
  /\ inv' = [inv EXCEPT ![i] = NoInv]
  /\ saving' = FALSE
  /\ saveQueued' = FALSE
  /\ UNCHANGED <<versions, st, idle, lastRequest, mergeTry, mrg,
                 outsideCoord>>

\* catch (e1) with e1.code === 409: renderConflict, the reload and tryMerge
\* closures are wired to the buttons, return (and the finally block)
\* the two diff strings of e1.payload are the backend's; the model carries
\* none of them
payload409 == [diff_parent_to_latest |-> <<>>, diff_parent_to_client |-> <<>>]

Conflict409(i) ==
  /\ inv[i].pc = "conflict"
  /\ modal' = renderConflict(payload409)
  /\ mergeTry' = [wired |-> TRUE, latest |-> inv[i].res.latest,
                  parent |-> inv[i].res.parent, text |-> inv[i].text]
  /\ inv' = [inv EXCEPT ![i] = NoInv]
  /\ saving' = FALSE
  /\ saveQueued' = FALSE
  /\ UNCHANGED <<versions, st, idle, lastRequest, mrg, outsideDialog>>

\* another writer saves a version on top of the latest one
OtherWriterSave(t) ==
  /\ Len(versions) < MaxVersion
  /\ t # backendLatest(versions).text
  /\ versions' = Append(versions, mkRow(Len(versions) + 1, t))
  /\ UNCHANGED <<st, saving, saveQueued, idle, inv, lastRequest, mergeTry, mrg, outsideCoord>>


\* click on mergeTry: the tryMerge closure wired by the last 409 starts
ClickMergeTry ==
  /\ mergeTry.wired
  /\ mrg.pc = "none"
  /\ mrg' = [NoMerge EXCEPT !.pc = "diff", !.latest = mergeTry.latest,
                            !.parent = mergeTry.parent, !.text = mergeTry.text]
  /\ UNCHANGED <<versions, st, saving, saveQueued, idle, inv, lastRequest,
                 mergeTry, outsideCoord>>

\* tryMerge after the two diffs: overlapping edits end the attempt, else the
\* combined edits are applied to the base text
mergeAttempt(m, baseText, diffsA, diffsB) ==
  IF anyOverlap(toEdits(diffsA), toEdits(diffsB))
  THEN [NoMerge EXCEPT !.editsLatest = toEdits(diffsA), !.editsMine = toEdits(diffsB),
                       !.toast = "unmergeable"]
  ELSE [m EXCEPT !.pc = "save", !.editsLatest = toEdits(diffsA),
                 !.editsMine = toEdits(diffsB),
                 !.merged = mergedText(baseText, diffsA, diffsB)]

\* tryMerge: both diffs came back from the worker; overlapping edits end the
\* attempt, else the combined edits are applied to the base text
TryMergeDiff ==
  /\ mrg.pc = "diff"
  /\ \E diffsA \in {workerDiff(canonicalizeText(mrg.parent.text),
                                canonicalizeText(mrg.latest.text), j, m) :
                       j \in BOOLEAN, m \in BOOLEAN},
        diffsB \in {workerDiff(canonicalizeText(mrg.parent.text), mrg.text, j, m) :
                       j \in BOOLEAN, m \in BOOLEAN} :
       mrg' = mergeAttempt(mrg, canonicalizeText(mrg.parent.text), diffsA, diffsB)
  /\ UNCHANGED <<versions, st, saving, saveQueued, idle, inv, lastRequest,
                 mergeTry, outsideCoord>>

\* tryMerge: the backend handles the save of the merged text against
\* payload.latest; a rejection lands in the catch of tryMerge
TryMergeSave ==
  /\ mrg.pc = "save"
  /\ LET answer == insertAnswer(versions, mrg.latest.version,
                                sha256Hex(canonicalizeText(mrg.latest.text)), mrg.merged)
     IN  /\ answer.kind = "ok" => Len(versions) < MaxVersion
         /\ versions' = insertStore(versions, answer, mrg.merged)
         /\ mrg' = IF answer.kind = "ok"
                   THEN [mrg EXCEPT !.pc = "saved", !.res = answer]
                   ELSE [NoMerge EXCEPT !.toast = "failed"]
  /\ UNCHANGED <<st, saving, saveQueued, idle, inv, lastRequest, mergeTry, outsideCoord>>

\* tryMerge: saveRes arrived, the merged text and version enter the state
TryMergeReturn ==
  /\ mrg.pc = "saved"
  /\ st' = [st EXCEPT !.liveText = mrg.merged, !.version = mrg.res.version,
                      !.base_sha256 = mrg.res.base_sha256]
  /\ mrg' = [NoMerge EXCEPT !.toast = "merged"]
  /\ modal' = NoDialog
  /\ UNCHANGED <<versions, saving, saveQueued, idle, inv, lastRequest, mergeTry, outsideDialog>>

\* click on mergeReload: the reload closure loads the latest version and
\* closes the dialog
ClickMergeReload ==
  /\ mergeTry.wired
  /\ versions # <<>>
  /\ LET latest == backendLatest(versions)
     IN  /\ st.version # latest.version \/ st.liveText # latest.text
         /\ st' = [st EXCEPT !.liveText = latest.text, !.version = latest.version,
                             !.base_sha256 = latest.base_sha256]
  /\ modal' = NoDialog
  /\ UNCHANGED <<versions, saving, saveQueued, idle, inv, lastRequest, mergeTry, mrg, outsideDialog>>

\* click on mergeClose, Escape, or a click on the backdrop of the dialog,
\* which lies over the page while the dialog is open
CloseModal ==
  /\ modal.open
  /\ modal' = NoDialog
  /\ UNCHANGED <<versions, st, saving, saveQueued, idle, inv, lastRequest, mergeTry, mrg,
                 outsideDialog>>

\* the page alone with its document: every source of save requests, up to
\* MaxInvocations calls of performSave in flight
Next ==
  \/ \E t \in EditorTexts : Type(t)
  \/ Quiet
  \/ \E i \in Slots : ClickSubmit(i)
  \/ \E i \in Slots : MarkClick(i)
  \/ \E i \in Slots : checkQueuedSave(i)
  \/ \E i \in Slots : ProbeReturn(i)
  \/ \E i \in Slots : ProbeConflict(i)
  \/ \E i \in Slots : BackendSave(i)
  \/ \E i \in Slots : SaveReturn(i)
  \/ \E i \in Slots : WordsReturn(i)
  \/ \E i \in Slots : Finally(i)
  \/ \E i \in Slots : Conflict409(i)
  \/ CloseModal

Spec == Init /\ [][Next]_vars

\* the page and another writer on the same document: one call of performSave
\* at a time, the merge dialog in use
NextMerge ==
  \/ \E t \in EditorTexts : Type(t)
  \/ MarkClick(1)
  \/ ProbeReturn(1)
  \/ ProbeConflict(1)
  \/ BackendSave(1)
  \/ SaveReturn(1)
  \/ WordsReturn(1)
  \/ Finally(1)
  \/ Conflict409(1)
  \/ \E t \in WriterTexts : OtherWriterSave(t)
  \/ ClickMergeTry
  \/ TryMergeDiff
  \/ TryMergeSave
  \/ TryMergeReturn
  \/ ClickMergeReload
  \/ CloseModal

SpecMerge == Init /\ [][NextMerge]_vars


\* ------------------------------------------------------------------------
\* Claims about the save coordinator
\* ------------------------------------------------------------------------
\* C5: at any moment at most one save of the document is in its Saving
\* phase, whatever the interleaving of the requests of the submit button,
\* the queued-save timer and the confirmation handlers.
C5_AtMostOneSaving ==
  Cardinality({i \in Slots : inv[i].pc \in SavingPcs}) <= 1

\* C6: a save request that arrives while another save of the document is in
\* Saving is queued and not discarded.
C6_QueuedNotDiscarded ==
  [][ ((\E i \in Slots : inv[i].pc \in SavingPcs) /\ lastRequest # "discarded")
        => lastRequest' # "discarded" ]_vars

\* C9: a save invoked with client_version > 0 and an editor text whose
\* canonical form equals the text of the version the client is based on
\* returns NoChange: its insert never writes a version.
C9_NoChangeNoVersion ==
  [][ \A i \in Slots :
        (/\ inv[i].pc = "insert"
         /\ inv[i].version > 0
         /\ inv[i].text = canonicalizeText(backendGet(versions, inv[i].version).text)
         /\ inv'[i].pc # "insert")
        => versions' = versions ]_vars

\* the conflict a call of performSave is about to report: the text of its
\* parent version, of the latest version, and its own text
conflictOf(i) ==
  IF inv[i].pc = "conflict"
  THEN [parent |-> inv[i].res.parent, latest |-> inv[i].res.latest, text |-> inv[i].text]
  ELSE [parent |-> backendGet(versions, inv[i].version),
        latest |-> backendLatest(versions), text |-> inv[i].text]

\* base "alpha bravo charlie", latest "alpha bravo charlie delta", client
\* "alpha BRAVO charlie"
IsExample(c) ==
  c.parent.text = BaseText /\ c.latest.text = LatestText /\ c.text = ClientText

\* C10: when a save based on version p conflicts with a newer latest version
\* and the edits base->latest and base->client do not overlap (the example of
\* the scenario), auto-merge runs on that conflict, produces the text with
\* both edit sets ("alpha BRAVO charlie delta"), and the save of that text
\* with parent = latest.version creates the next version as long as that
\* version is still the latest one.
C10_AutoMergeExample ==
  [][ /\ \A i \in Slots :
           (/\ inv[i].pc \in {"probeConflict", "conflict"}
            /\ inv'[i].pc = "none"
            /\ IsExample(conflictOf(i)))
           => (mergeTry'.wired /\ IsExample(mergeTry'))
      /\ (mrg.pc = "diff" /\ mrg' # mrg /\ IsExample(mrg))
           => (mrg'.pc = "save" /\ mrg'.merged = MergedText)
      /\ (mrg.pc = "save" /\ mrg' # mrg /\ mrg.latest.version = Len(versions))
           => (/\ mrg'.pc = "saved"
               /\ versions' = Append(versions, mkRow(Len(versions) + 1, mrg.merged))) ]_vars


\* ------------------------------------------------------------------------
\* The merge dialog on its own: the page right after a 409 answer, for every
\* choice of the three texts of the conflict
\* ------------------------------------------------------------------------
\* longest text of a conflict
MaxMergeLen == 3

\* the characters of those texts: a word character and a blank
MergeAlphabet == {"a", " "}

\* the canonical, non-empty texts a version or the editor may hold
MergeTexts ==
  {s \in UNION {[1..m -> MergeAlphabet] : m \in 1..MaxMergeLen} : canonicalizeText(s) = s}

\* version 1 is the parent of the page, version 2 came from another writer,
\* the save of the page was answered 409 and the dialog is wired
TryMergeInit ==
  /\ \E base \in MergeTexts, latest \in MergeTexts, client \in MergeTexts :
       /\ versions = <<mkRow(1, base), mkRow(2, latest)>>
       /\ st = [version |-> 1, base_sha256 |-> sha256Hex(base),
                liveText |-> client, baselineText |-> base]
       /\ mergeTry = [wired |-> TRUE, latest |-> mkRow(2, latest),
                      parent |-> mkRow(1, base), text |-> client]
  /\ saving = FALSE
  /\ saveQueued = FALSE
  /\ idle = TRUE
  /\ inv = [i \in Slots |-> NoInv]
  /\ lastRequest = "accepted"
  /\ mrg = NoMerge
  /\ DiffIdle
  /\ StoreIdle
  /\ FlowIdle
  /\ ConfIdle
  /\ LoadIdle

NextTryMerge ==
  \/ ClickMergeTry
  \/ TryMergeDiff
  \/ TryMergeSave
  \/ TryMergeReturn

SpecTryMerge == TryMergeInit /\ [][NextTryMerge]_vars

\* overlap of two edits as the patch composer defines it: two pure
\* insertions overlap iff their starts are equal, an insertion overlaps a
\* replacement iff its position lies in [start, end), two replacements
\* overlap iff their ranges intersect
EditsOverlap(e1, e2) ==
  LET ins1 == e1.start = e1.end
      ins2 == e2.start = e2.end
  IN  \/ ins1 /\ ins2 /\ e1.start = e2.start
      \/ ins1 /\ ~ins2 /\ e2.start <= e1.start /\ e1.start < e2.end
      \/ ~ins1 /\ ins2 /\ e1.start <= e2.start /\ e2.start < e1.end
      \/ ~ins1 /\ ~ins2 /\ e1.start < e2.end /\ e2.start < e1.end

SomeOverlap(m) ==
  \E i \in 1..Len(m.editsLatest), j \in 1..Len(m.editsMine) :
    EditsOverlap(m.editsLatest[i], m.editsMine[j])

\* C11: when an edit of the client overlaps an edit of the latest version
\* relative to their common base, auto-merge reports the conflict as
\* unmergeable, does not go on to its save, and no version is written.
C11_OverlapUnmergeable ==
  [][ (mrg.pc = "diff" /\ mrg' # mrg /\ SomeOverlap(mrg'))
        => (mrg'.pc = "none" /\ mrg'.toast = "unmergeable" /\ versions' = versions) ]_vars

\* an attempt on overlapping edits has ended
C11_Witness ==
  mrg.toast = "unmergeable" /\ SomeOverlap(mrg)


RECURSIVE ApplyAscending(_, _, _)
\* the edits of one list spliced into text one after the other, first to
\* last, each moved by the length change of those before it
ApplyAscending(text, es, shift) ==
  IF es = <<>> THEN text
  ELSE LET e == Head(es)
       IN  ApplyAscending(SubSeq(text, 1, e.start + shift) \o e.ins
                            \o SubSeq(text, e.end + shift + 1, Len(text)),
                          Tail(es), shift + Len(e.ins) - (e.end - e.start))

RECURSIVE LengthChangeBefore(_, _)
\* the length change made by the edits of es that end at or before pos
LengthChangeBefore(es, pos) ==
  IF es = <<>> THEN 0
  ELSE (IF Head(es).end <= pos THEN Len(Head(es).ins) - (Head(es).end - Head(es).start)
        ELSE 0) + LengthChangeBefore(Tail(es), pos)

\* the edits of es with their positions rebased onto the text first has
\* already been applied to
Rebased(es, first) ==
  [k \in 1..Len(es) |->
     [start |-> es[k].start + LengthChangeBefore(first, es[k].start),
      end   |-> es[k].end + LengthChangeBefore(first, es[k].start),
      ins   |-> es[k].ins]]

\* first applied to base, then second applied to the result
Sequentially(base, first, second) ==
  ApplyAscending(ApplyAscending(base, first, 0), Rebased(second, first), 0)

\* C12: for edit lists edits_latest and edits_mine derived from a common
\* base and not overlapping each other, the text tryMerge builds by applying
\* their union to the base equals the text obtained by applying
\* edits_latest and then the rebased edits_mine, and the text obtained by
\* applying edits_mine and then the rebased edits_latest.
C12_Composable ==
  (mrg.pc \in {"save", "saved"} /\ ~SomeOverlap(mrg))
    => LET base == canonicalizeText(mrg.parent.text)
       IN  /\ mrg.merged = Sequentially(base, mrg.editsLatest, mrg.editsMine)
           /\ mrg.merged = Sequentially(base, mrg.editsMine, mrg.editsLatest)

\* a merge of two non-empty edit lists that do not overlap
C12_Witness ==
  /\ mrg.pc = "save"
  /\ ~SomeOverlap(mrg)
  /\ mrg.editsLatest # <<>>
  /\ mrg.editsMine # <<>>
  /\ mrg.merged # canonicalizeText(mrg.latest.text)
  /\ mrg.merged # mrg.text

\* ------------------------------------------------------------------------
\* tryMerge of ui/controls.js on the Supabase tables: the merged text is
\* handed to saveTranscriptVersion of data/api.js as it was spliced
\* ------------------------------------------------------------------------
\* versions 1 and 2 are stored, the save of the page (parent 1) was refused
\* and the merge dialog is wired with the payload {latest, parent}
LegacyMergeInit ==
  /\ \E base \in MergeTexts, latest \in MergeTexts, client \in MergeTexts :
       /\ transcripts = {mkRow(1, base), mkRow(2, latest)}
       /\ st = [version |-> 1, base_sha256 |-> sha256Hex(base),
                liveText |-> client, baselineText |-> base]
       /\ mergeTry = [wired |-> TRUE, latest |-> mkRow(2, latest),
                      parent |-> mkRow(1, base), text |-> client]
  /\ versions = <<>>
  /\ saving = FALSE
  /\ saveQueued = FALSE
  /\ idle = TRUE
  /\ inv = [i \in Slots |-> NoInv]
  /\ lastRequest = "accepted"
  /\ mrg = NoMerge
  /\ transcript_edits = {}
  /\ pc = [c \in Clients |-> "idle"]
  /\ call = [c \in Clients |-> NoCall]
  /\ ret = [c \in Clients |-> NoRet]
  /\ chk = [c \in Clients |-> NoChk]
  /\ DiffIdle
  /\ FlowIdle
  /\ ConfIdle
  /\ LoadIdle

\* tryMerge: saveTranscriptVersion(filePath, {parentVersion: latest.version,
\* text: merged, words, expectedBaseSha256})
LegacyTryMergeSave(c) ==
  /\ mrg.pc = "save"
  /\ pc[c] = "idle"
  /\ call' = [call EXCEPT ![c] =
               [NoCall EXCEPT !.caller = "tryMerge",
                              !.parentVersion = mrg.latest.version,
                              !.text = mrg.merged,
                              !.expectedBaseSha256 =
                                 sha256Hex(canonicalizeText(mrg.latest.text)),
                              !.latestAtCall = LatestVersion]]
  /\ pc' = [pc EXCEPT ![c] = "begin"]
  /\ mrg' = [mrg EXCEPT !.pc = "saving"]
  /\ UNCHANGED <<transcripts, transcript_edits, ret, chk, versions, st, saving,
                 saveQueued, idle, inv, lastRequest, mergeTry, diffVars, loadVars, flowVars, confVars>>

\* tryMerge after its save: the merged text and the new version enter the
\* state, or the thrown error lands in the catch ('Auto-merge failed')
LegacyTryMergeReturn(c) ==
  /\ pc[c] = "done"
  /\ call[c].caller = "tryMerge"
  /\ IF ret[c].kind = "ok"
     THEN /\ st' = [st EXCEPT !.liveText = mrg.merged, !.version = ret[c].version,
                              !.base_sha256 = ret[c].base_sha256]
          /\ mrg' = [NoMerge EXCEPT !.toast = "merged"]
     ELSE /\ st' = st
          /\ mrg' = [NoMerge EXCEPT !.toast = "failed"]
  /\ pc' = [pc EXCEPT ![c] = "idle"]
  /\ call' = [call EXCEPT ![c] = NoCall]
  /\ ret' = [ret EXCEPT ![c] = NoRet]
  /\ UNCHANGED <<transcripts, transcript_edits, chk, versions, saving, saveQueued,
                 idle, inv, lastRequest, mergeTry, diffVars, loadVars, flowVars, confVars>>

NextLegacyMerge ==
  \/ ClickMergeTry
  \/ TryMergeDiff
  \/ LegacyTryMergeSave("c1")
  \/ ApiBegin("c1")
  \/ ApiInsert("c1")
  \/ LegacyTryMergeReturn("c1")

SpecLegacyMerge == LegacyMergeInit /\ [][NextLegacyMerge]_vars

RecordsOf(n) == {e \in transcript_edits : e.child_version = n}

\* C14: each successful insert creates the child version and its edit
\* record together: in every state a reader can observe, every stored
\* version n >= 2 has exactly one edit record with child_version = n, and
\* that record has parent_version = n - 1
C14_VersionWithItsRecord ==
  \A r \in transcripts :
    r.version >= 2 =>
      /\ Cardinality(RecordsOf(r.version)) = 1
      /\ \A e \in RecordsOf(r.version) : e.parent_version = r.version - 1

\* ------------------------------------------------------------------------
\* verifyChainHash over stored chains, sound and corrupted
\* ------------------------------------------------------------------------
\* texts of version 1 and of the latest version
VerifyTexts == {<<>>, <<"a">>, <<"b">>}

\* the text_ops an edit record may hold
VerifyOps ==
  { <<Op(0, <<"a">>)>>,
    <<Op(-1, <<"a">>), Op(1, <<"b">>)>>,
    <<Op(-1, <<"b">>), Op(1, <<"a">>)>>,
    <<Op(1, <<"a">>)>>,
    <<Op(-1, <<"a">>)>>,
    <<Op(-1, <<"a">>), Op(1, <<" ">>)>> }

\* the base_sha256 the latest row may carry: the hash of its text, the hash
\* of another text, or none
VerifyHashes(t) == {sha256Hex(canonicalizeText(t)), sha256Hex(<<"x">>), <<>>}

\* a document with versions 1..k and at most one edit record per version
\* n >= 2; the verifier reads version 1, the latest version and the records
VerifyInit ==
  /\ \E k \in 1..MaxVersion, t1 \in VerifyTexts, tk \in VerifyTexts,
        present \in [2..MaxVersion -> BOOLEAN], f \in [2..MaxVersion -> VerifyOps] :
       /\ k = 1 => tk = t1
       /\ \A n \in 2..MaxVersion : n > k => (~present[n] /\ f[n] = <<Op(0, <<"a">>)>>)
       /\ \A n \in 2..MaxVersion : ~present[n] => f[n] = <<Op(0, <<"a">>)>>
       /\ \E hk \in VerifyHashes(tk) :
            transcripts =
              {[version |-> k, text |-> tk, base_sha256 |-> hk]}
                \cup {mkRow(n, IF n = 1 THEN t1 ELSE <<"a">>) : n \in 1..(k - 1)}
       /\ transcript_edits =
            {[parent_version |-> n - 1, child_version |-> n, ops |-> f[n]] :
               n \in {m \in 2..k : present[m]}}
  /\ pc = [c \in Clients |-> "idle"]
  /\ call = [c \in Clients |-> NoCall]
  /\ ret = [c \in Clients |-> NoRet]
  /\ chk = [c \in Clients |-> NoChk]
  /\ DiffIdle
  /\ FlowIdle
  /\ ConfIdle
  /\ LoadIdle
  /\ CoordIdle

\* vRes = await verifyChainHash(filePath), history/verify-chain.js
VerifyCall(c) ==
  /\ pc[c] = "idle"
  /\ call' = [call EXCEPT ![c] = [NoCall EXCEPT !.caller = "verifyChainHash"]]
  /\ pc' = [pc EXCEPT ![c] = "verify"]
  /\ UNCHANGED <<transcripts, transcript_edits, ret, chk, outsideStore>>

\* verifyChainHash of v2/history/panel.js is called
VerifyV2Call(c) ==
  /\ pc[c] = "idle"
  /\ call' = [call EXCEPT ![c] = [NoCall EXCEPT !.caller = "verifyChainHashV2"]]
  /\ pc' = [pc EXCEPT ![c] = "verifyV2"]
  /\ UNCHANGED <<transcripts, transcript_edits, ret, chk, outsideStore>>

\* its reads and its verdict (the tables do not change between the reads)
VerifyV2Run(c) ==
  /\ pc[c] = "verifyV2"
  /\ chk' = [chk EXCEPT ![c] =
               [latest |-> getLatestTranscript(transcripts),
                v1     |-> getTranscriptVersion(transcripts, 1),
                result |-> verifyChainHashV2(getLatestTranscript(transcripts),
                                             getTranscriptVersion(transcripts, 1),
                                             getTranscriptEdits(transcript_edits))]]
  /\ pc' = [pc EXCEPT ![c] = "finally"]
  /\ UNCHANGED <<transcripts, transcript_edits, call, ret, outsideStore>>

NextVerify ==
  \/ VerifyCall("c1")
  \/ LegacyVerifyLatest("c1")
  \/ LegacyVerifyV1("c1")
  \/ LegacyVerifyEdits("c1")
  \/ VerifyV2Call("c1")
  \/ VerifyV2Run("c1")
  \/ LegacyFinally("c1")

SpecVerify == VerifyInit /\ [][NextVerify]_vars

\* the stored edit records in ascending child_version
StoredEdits == getTranscriptEdits(transcript_edits)

\* the text replayed before record i is looked at
TextBefore(i) ==
  IF i = 1 THEN canonicalizeText(getTranscriptVersion(transcripts, 1).text)
  ELSE reconstructNew(StoredEdits[i - 1].ops)

\* record i does not reconstruct the text replayed so far, all records
\* before it did
FirstMismatch(i) ==
  /\ i \in 1..Len(StoredEdits)
  /\ canonicalizeText(reconstructOld(StoredEdits[i].ops)) # TextBefore(i)
  /\ \A j \in 1..(i - 1) :
       canonicalizeText(reconstructOld(StoredEdits[j].ops)) = TextBefore(j)

\* a verifier has returned its verdict to client c
Verified(c) ==
  pc[c] = "finally" /\ call[c].caller \in {"verifyChainHash", "verifyChainHashV2"}

\* C15: if the text_ops of a stored edit record do not reconstruct
\* (reconstruct_old, then canonicalize) the text replayed so far, verify
\* returns Err{ops-dont-match-parent, at} with at = that record's
\* child_version, and never Ok
C15_BrokenRecordReported ==
  \A c \in Clients : \A i \in 1..Len(StoredEdits) :
    (Verified(c) /\ FirstMismatch(i)) =>
      /\ ~chk[c].result.ok
      /\ chk[c].result.reason = "ops-dont-match-parent"
      /\ chk[c].result.at = StoredEdits[i].child_version

\* every stored record reconstructs the text replayed so far
ReplaysWithoutError ==
  \A j \in 1..Len(StoredEdits) :
    canonicalizeText(reconstructOld(StoredEdits[j].ops)) = TextBefore(j)

\* the text at the end of the replay
ReplayedText == TextBefore(Len(StoredEdits) + 1)

\* verifyChainHash of history/verify-chain.js has returned to client c for
\* a document whose records all replay
ReplayVerified(c) ==
  /\ pc[c] = "finally"
  /\ call[c].caller = "verifyChainHash"
  /\ chk[c].v1.version = 1
  /\ ReplaysWithoutError

Word(w, s, e) == [word |-> w, start |-> s, end |-> e]

\* a time that matches /^999999999\d/
FakeTime == 9

isFake(t) == t = FakeTime

\* validateTimingData(words): TRUE when it returns, FALSE when it throws
RECURSIVE validateFrom(_, _)
validateFrom(words, i) ==
  IF i > Len(words) THEN TRUE
  ELSE LET word == words[i]
       IN  IF word.start # Null /\ isFake(word.start) THEN FALSE
           ELSE IF word.end # Null /\ isFake(word.end) THEN FALSE
           ELSE IF word.start # Null /\ word.end # Null /\ word.end < word.start
                THEN FALSE
           ELSE IF word.start # Null /\ word.end # Null /\ i > 1
                   /\ words[i - 1].end # Null /\ word.start < words[i - 1].end
                THEN FALSE
           ELSE validateFrom(words, i + 1)

validateTimingData(words) == validateFrom(words, 1)

\* mergeProbabilities(next, prev), the timings: a token of next without a
\* start or an end takes them from the token of prev at the same characters
\* (every word of the model is one character long); the pair is written
\* only when end >= start, else the token stays as it came
mergeTiming(t, i, prev) ==
  LET r     == IF i <= Len(prev) /\ prev[i].start # Null /\ prev[i].end # Null
               THEN prev[i] ELSE Word(t.word, Null, Null)
      start == IF t.start = Null THEN r.start ELSE t.start
      end   == IF t.end = Null THEN r.end ELSE t.end
  IN  IF start # Null /\ end # Null /\ end >= start
      THEN Word(t.word, start, end)
      ELSE t

mergeProbabilities(next, prev) ==
  [i \in 1..Len(next) |-> mergeTiming(next[i], i, prev)]

\* computeWindowStats(tokens, segCenter, 1) for tokens of one segment
computeWindowStats(toks) ==
  LET starts == {toks[i].start : i \in 1..Len(toks)} \ {Null}
      ends   == {toks[i].end : i \in 1..Len(toks)} \ {Null}
      minS   == CHOOSE s \in starts : \A x \in starts : s <= x
      maxE   == CHOOSE e \in ends : \A x \in ends : e >= x
  IN  [words   |-> Len(toks),
       seconds |-> IF starts # {} /\ ends # {} /\ maxE >= minS THEN maxE - minS ELSE 0]

\* the start / end pairs a word may arrive with
TimingPairs == {<<Null, Null>>, <<1, 2>>, <<2, 3>>, <<2, 1>>, <<FakeTime, FakeTime>>}

\* the answers of /transcripts/words: no word, or the words of the text
\* with any of those timings
WordAnswers ==
  {<<>>}
    \cup {<<Word("a", p[1], p[2])>> : p \in TimingPairs}
    \cup {<<Word("a", p[1], p[2]), Word("b", q[1], q[2])>> :
            p \in TimingPairs, q \in TimingPairs}

\* the tokens of the page when the save was requested: they were accepted
\* by validateTimingData
PageTokens == {ws \in WordAnswers : validateTimingData(ws)}

\* res has arrived (line 533): version 2 is committed, saving is true
PostInit ==
  /\ \E toks \in PageTokens :
       post = [NoPost EXCEPT !.pc = "saved", !.tokens = toks, !.childV = 2,
                             !.stats = computeWindowStats(toks)]
  /\ versions = <<mkRow(1, BaseText), mkRow(2, ClientText)>>
  /\ st = [version |-> 1, base_sha256 |-> sha256Hex(BaseText),
           liveText |-> ClientText, baselineText |-> BaseText]
  /\ saving = TRUE
  /\ saveQueued = FALSE
  /\ idle = TRUE
  /\ inv = [i \in Slots |-> NoInv]
  /\ lastRequest = "accepted"
  /\ mergeTry = NoHandler
  /\ mrg = NoMerge
  /\ req = NoReq
  /\ storedWords = <<>>
  /\ DiffIdle
  /\ StoreIdle
  /\ ConfIdle
  /\ LoadIdle

\* what no step after the commit writes
outsidePost == <<idle, inv, lastRequest, mergeTry, mrg, req, storedWords, diffVars, loadVars, storeVars,
                 confVars>>

\* store.setState({version: childV, base_sha256}, 'version:saved')
PostSetState ==
  /\ post.pc = "saved"
  /\ st' = [st EXCEPT !.version = post.childV,
                      !.base_sha256 = backendGet(versions, post.childV).base_sha256]
  /\ post' = [post EXCEPT !.pc = "refresh"]
  /\ UNCHANGED <<versions, saving, saveQueued, outsidePost>>

\* the text of a word list: enriched.map(t => t.word).join('')
wordsText(ws) == [i \in 1..Len(ws) |-> ws[i].word]

\* wordsNow = await api.getTranscriptWords(filePath, childV): a non-empty
\* answer replaces the tokens and the live text; nothing validates it
PostRefresh ==
  /\ post.pc = "refresh"
  /\ \E wordsNow \in WordAnswers :
       IF wordsNow # <<>>
       THEN /\ post' = [post EXCEPT !.pc = "trigger", !.received = wordsNow,
                                    !.tokens = mergeProbabilities(wordsNow, post.tokens)]
            /\ st' = [st EXCEPT !.liveText = wordsText(wordsNow)]
       ELSE /\ post' = [post EXCEPT !.pc = "trigger", !.received = wordsNow]
            /\ st' = st
  /\ UNCHANGED <<versions, saving, saveQueued, outsidePost>>

\* the alignment is handed to a microtask when the window of the save has
\* words and seconds; else the success toast is shown at once
PostTrigger ==
  /\ post.pc = "trigger"
  /\ post' = IF post.stats.words > 0 /\ post.stats.seconds > 0
             THEN [post EXCEPT !.pc = "history", !.alignmentTriggered = TRUE,
                               !.bg = "scheduled"]
             ELSE [post EXCEPT !.pc = "history"]
  /\ UNCHANGED <<versions, st, saving, saveQueued, outsidePost>>

\* the parent is fetched and the diff asked of the worker; nothing is kept
PostHistory ==
  /\ post.pc = "history"
  /\ post' = [post EXCEPT !.pc = "verify"]
  /\ UNCHANGED <<versions, st, saving, saveQueued, outsidePost>>

\* vRes = await verifyChainHash(filePath) and its toast
PostVerify ==
  /\ post.pc = "verify"
  /\ post' = [post EXCEPT !.pc = "finally", !.verified = TRUE]
  /\ UNCHANGED <<versions, st, saving, saveQueued, outsidePost>>

\* finally { saving = false; saveQueued = false; ... }
PostFinally ==
  /\ post.pc = "finally"
  /\ post' = [post EXCEPT !.pc = "done"]
  /\ saving' = FALSE
  /\ saveQueued' = FALSE
  /\ UNCHANGED <<versions, st, outsidePost>>

\* the microtask starts: ar = await api.alignSegment(filePath, {version, ...})
BgAlignCall ==
  /\ post.bg = "scheduled"
  /\ post' = [post EXCEPT !.bg = "align", !.aligned = TRUE]
  /\ UNCHANGED <<versions, st, saving, saveQueued, outsidePost>>

\* alignSegment answered or threw; either way the words are fetched next
BgAlignReturn ==
  /\ post.bg = "align"
  /\ post' = [post EXCEPT !.bg = "words"]
  /\ UNCHANGED <<versions, st, saving, saveQueued, outsidePost>>

\* aligned = await api.getTranscriptWords(filePath, childV):
\* validateTimingData(aligned) throws before setTokens, as does an empty
\* answer; else the tokens and the live text are replaced
BgWords ==
  /\ post.bg = "words"
  /\ \E aligned \in WordAnswers :
       IF aligned # <<>> /\ validateTimingData(aligned)
       THEN /\ post' = [post EXCEPT !.bg = "done", !.received = aligned,
                                    !.tokens = mergeProbabilities(aligned, post.tokens)]
            /\ st' = [st EXCEPT !.liveText = wordsText(aligned)]
       ELSE /\ post' = [post EXCEPT !.bg = "rejected", !.received = aligned]
            /\ st' = st
  /\ UNCHANGED <<versions, saving, saveQueued, outsidePost>>

NextPost ==
  \/ PostSetState
  \/ PostRefresh
  \/ PostTrigger
  \/ PostHistory
  \/ PostVerify
  \/ PostFinally
  \/ BgAlignCall
  \/ BgAlignReturn
  \/ BgWords

SpecPost == PostInit /\ [][NextPost]_vars

\* every step of performSave and of its microtask is taken in the end
FairSpecPost == SpecPost /\ WF_vars(NextPost)

\* C17: once the store insert of a save has committed, the coordinator
\* always goes on to run timing alignment and chain verification for that
\* save, on every execution path after the commit
C17_AlignAndVerifyAfterCommit ==
  (post.pc = "saved") ~> (post.aligned /\ post.verified)

\* words that pass timing validation: no fake value, no end before its
\* start, no word that starts before the word ahead of it ends
TimingValid(ws) ==
  /\ \A i \in 1..Len(ws) :
       /\ ws[i].start # FakeTime /\ ws[i].end # FakeTime
       /\ (ws[i].start # Null /\ ws[i].end # Null) => ws[i].end >= ws[i].start
  /\ \A i \in 2..Len(ws) :
       (ws[i].start # Null /\ ws[i].end # Null /\ ws[i - 1].end # Null)
         => ws[i].start >= ws[i - 1].end

\* a step in which words arrive from the backend after the save
WordsArrive ==
  \/ post.pc = "refresh" /\ post'.pc = "trigger"
  \/ post.bg = "words" /\ post'.bg \in {"done", "rejected"}

\* C18: if the words received after a save fail timing validation (a fake
\* value, end < start, or a non-monotonic transition), the coordinator
\* discards them: the client-visible tokens keep their previous timings,
\* and the committed version is not rolled back
C18_InvalidWordsDiscarded ==
  [][ (WordsArrive /\ post'.received # <<>> /\ ~TimingValid(post'.received))
        => (post'.tokens = post.tokens /\ versions' = versions) ]_vars

\* ------------------------------------------------------------------------
\* saveTranscriptVersion of v2/data/api.js: the words of the payload, the
\* retry loop, what the backend persists
\* ------------------------------------------------------------------------
\* const maxAttempts = 6
maxAttempts == 6

\* a pause that doubles with every attempt: 50, 100, 200, 400, 800 ms
backoffDoubling(attempt) == 50 * (2 ^ (attempt - 1))

\* the pause after a failed attempt, in ms: setTimeout(res, 50 * attempt)
backoff(attempt) == 50 * attempt

\* what POST /transcripts/save answers the only writer of a document: 200, a
\* status >= 500 or a body with 'database is locked', any other status
Answers == {"ok", "transient", "other"}

\* retriable = r.status >= 500 || /database is locked/i.test(lastErrText)
retriable(answer) == answer = "transient"

RECURSIVE Sum(_)
Sum(s) == IF s = <<>> THEN 0 ELSE Head(s) + Sum(Tail(s))

\* tryCopyFromSource: the first token at or after ti whose word is the
\* piece, newline tokens skipped; 0 when there is none
RECURSIVE findFrom(_, _, _)
findFrom(source, j, piece) ==
  IF j > Len(source) THEN 0
  ELSE IF source[j].word # "\n" /\ source[j].word = piece THEN j
  ELSE findFrom(source, j + 1, piece)

\* buildWordsForSaveFromText over the pieces of the text: a piece takes the
\* start and end of the next source token with the same word, else none
RECURSIVE buildFrom(_, _, _, _)
buildFrom(pieces, source, ti, out) ==
  IF pieces = <<>> THEN out
  ELSE LET piece == Head(pieces)
           j     == findFrom(source, ti, piece)
       IN  IF piece = "\n" \/ j = 0
           THEN buildFrom(Tail(pieces), source, ti, Append(out, Word(piece, Null, Null)))
           ELSE buildFrom(Tail(pieces), source, j + 1,
                          Append(out, Word(piece, source[j].start, source[j].end)))

buildWordsForSaveFromText(text, source) == buildFrom(text, source, 1, <<>>)

\* the words of a list that carry a start and an end, newlines left out
timedWords(ws) ==
  SelectSeq(ws, LAMBDA w : w.word # "\n" /\ w.start # Null /\ w.end # Null)

\* the timing validation of the backend: no fake value, no end before its
\* start, no word that starts before the word ahead of it ends
backendAccepts(ws) ==
  /\ \A i \in 1..Len(ws) : ~isFake(ws[i].start) /\ ~isFake(ws[i].end)
  /\ \A i \in 1..Len(timedWords(ws)) : timedWords(ws)[i].end >= timedWords(ws)[i].start
  /\ \A i \in 2..Len(timedWords(ws)) :
       timedWords(ws)[i].start >= timedWords(ws)[i - 1].end

\* a backend that stores the words of the payload as they came
persistAsSent(ws) == ws

\* what the backend stores with the version: the words of the payload, or,
\* when their timings are rejected, the words without timings
persistWords(ws) ==
  IF backendAccepts(ws) THEN ws
  ELSE [i \in 1..Len(ws) |-> Word(ws[i].word, Null, Null)]

\* the tokens of the page: the words of "a" or of "a b", with any timings
\* on the two words (the page does not validate what it loads or refreshes)
SourceTokens ==
  {<<Word("a", p[1], p[2])>> : p \in TimingPairs}
    \cup {<<Word("a", p[1], p[2]), Word(" ", Null, Null), Word("b", q[1], q[2])>> :
            p \in TimingPairs, q \in TimingPairs}

\* the texts the user saves, as line.split(/(\s+)/g) cuts them
SaveTexts == {<<"a">>, <<"b">>, <<"a", " ", "b">>, <<"b", " ", "a">>, <<"a", "\n", "b">>}

\* version 1 is loaded, its tokens are on the page, the user has edited
SaveInit ==
  /\ \E toks \in SourceTokens, text \in SaveTexts :
       /\ post = [NoPost EXCEPT !.tokens = toks]
       /\ versions = <<mkRow(1, wordsText(toks))>>
       /\ storedWords = <<persistWords(toks)>>
       /\ st = [version |-> 1, base_sha256 |-> sha256Hex(wordsText(toks)),
                liveText |-> text, baselineText |-> wordsText(toks)]
  /\ req = NoReq
  /\ saving = FALSE
  /\ saveQueued = FALSE
  /\ idle = TRUE
  /\ inv = [i \in Slots |-> NoInv]
  /\ lastRequest = "none"
  /\ mergeTry = NoHandler
  /\ mrg = NoMerge
  /\ DiffIdle
  /\ StoreIdle
  /\ ConfIdle
  /\ LoadIdle

\* what the steps of saveTranscriptVersion do not write
outsideSave == <<post, st, saving, saveQueued, idle, inv, lastRequest, mergeTry, mrg,
                 diffVars, loadVars, storeVars, confVars>>

\* performSave builds wordsForSave and calls api.saveTranscriptVersion
SaveCall ==
  /\ req.pc = "none"
  /\ st.liveText # st.baselineText
  /\ req' = [NoReq EXCEPT !.pc = "fetch", !.text = st.liveText,
                          !.words = buildWordsForSaveFromText(st.liveText, post.tokens)]
  /\ UNCHANGED <<versions, storedWords, outsideSave>>

\* one pass of the while loop: attempt++, the POST, and the answer; 200
\* returns the json, a retriable answer before the last attempt leads to the
\* pause, anything else throws
SaveAttempt ==
  /\ req.pc = "fetch"
  /\ \E answer \in Answers :
       IF answer = "ok"
       THEN LET res == insertAnswer(versions, st.version, st.base_sha256, req.text)
            IN  /\ res.kind = "ok"
                /\ versions' = insertStore(versions, res, req.text)
                /\ storedWords' = Append(storedWords, persistWords(req.words))
                /\ req' = [req EXCEPT !.pc = "done", !.attempt = @ + 1, !.outcome = "ok"]
       ELSE /\ req' = IF retriable(answer) /\ req.attempt + 1 < maxAttempts
                      THEN [req EXCEPT !.pc = "backoff", !.attempt = @ + 1]
                      ELSE [req EXCEPT !.pc = "done", !.attempt = @ + 1,
                                       !.outcome = "failed"]
            /\ UNCHANGED <<versions, storedWords>>
  /\ UNCHANGED outsideSave

\* await new Promise(res => setTimeout(res, 50 * attempt))
SaveBackoff ==
  /\ req.pc = "backoff"
  /\ req' = [req EXCEPT !.pc = "fetch", !.delays = Append(@, backoff(req.attempt))]
  /\ UNCHANGED <<versions, storedWords, outsideSave>>

NextSave ==
  \/ SaveCall
  \/ SaveAttempt
  \/ SaveBackoff

SpecSave == SaveInit /\ [][NextSave]_vars

GrowsExponentially(d) ==
  /\ \A i \in 2..Len(d) : d[i] > d[i - 1]
  /\ \A i \in 2..(Len(d) - 1) : d[i + 1] * d[i - 1] = d[i] * d[i]

\* the pauses grow by a constant step, the first pause
GrowsLinearly(d) == \A i \in 1..Len(d) : d[i] = i * d[1]

\* the loop is bounded: at most 6 attempts, pauses of at most 1.2 s in
\* all, and after the sixth attempt the call has ended
BoundedRetry ==
  /\ req.attempt <= 6
  /\ Sum(req.delays) <= 1200
  /\ req.attempt = 6 => req.pc = "done"
  /\ (req.pc = "done" /\ Len(req.delays) = 5) => req.outcome \in {"ok", "failed"}

\* C20 as stated: when the backend keeps answering with transient errors, a
\* save is attempted at most 6 times with exponentially growing backoff
\* whose total is at most 1.2 s, after which the retry loop ends and a
\* non-retryable failure is surfaced to the caller
C20_ExponentialBackoff == BoundedRetry /\ GrowsExponentially(req.delays)

\* C20, amended: the same bounds, with a backoff that grows linearly (50 ms
\* more after every failed attempt: 50, 100, 150, 200, 250 ms, 750 ms in all)
C20_BoundedRetry == BoundedRetry /\ GrowsLinearly(req.delays) /\ Sum(req.delays) <= 750

\* six transient answers in a row: five pauses, then the failure
C20_Witness ==
  req.pc = "done" /\ req.outcome = "failed" /\ req.attempt = 6 /\ Len(req.delays) = 5

\* ------------------------------------------------------------------------
\* Confirmations in data/api.js: saveConfirmations and getConfirmations
\* ------------------------------------------------------------------------
\* the text the ranges are cut from and the hash of the confirmed version
ConfText == <<"a", "b", "a">>

\* mkCtx(s, e): offsets with up to 16 characters of context on either side
mkCtx(text, s, e) ==
  [start_offset |-> s, end_offset |-> e,
   prefix |-> Slice(text, Max(0, s - 16), s),
   exact |-> Slice(text, s, e),
   suffix |-> Slice(text, e, Max(e, Min(Len(text), e + 16)))]

\* payload of one call: a row per range; id stands for the serial id the
\* table gives each inserted row
confPayload(c, base_sha256, ranges, text) ==
  {[id |-> <<c, i>>, base_sha256 |-> base_sha256, ctx |-> mkCtx(text, ranges[i][1], ranges[i][2])] :
     i \in 1..Len(ranges)}

\* the range lists the callers pass
RangeLists == {<<>>, <<<<0, 1>>>>, <<<<1, 2>>>>, <<<<0, 1>>, <<2, 3>>>>}

\* rows a complete earlier save has left in the table
EarlierRows == confPayload("c0", sha256Hex(ConfText), <<<<0, 3>>>>, ConfText)

ConfInit ==
  /\ transcript_confirmations = EarlierRows
  /\ cw = [c \in Clients |-> NoWrite]
  /\ seen = [c \in Clients |-> NoSeen]
  /\ mk = NoMark
  /\ modal = NoDialog
  /\ DiffIdle
  /\ StoreIdle
  /\ CoordIdle
  /\ FlowIdle
  /\ LoadIdle

outsideConf == <<diffVars, loadVars, storeVars, coordVars, flowVars, mk, modal>>

\* saveConfirmations up to its first await: rows = ranges.map(mkCtx)
SaveConfirmationsCall(c, ranges) ==
  /\ cw[c].pc = "none"
  /\ cw' = [cw EXCEPT ![c] = [pc |-> "delete",
                              rows |-> confPayload(c, sha256Hex(ConfText), ranges, ConfText)]]
  /\ UNCHANGED <<transcript_confirmations, seen, outsideConf>>

\* await supa.from('transcript_confirmations').delete().eq(file_path).eq(version)
SaveConfirmationsDelete(c) ==
  /\ cw[c].pc = "delete"
  /\ transcript_confirmations' = {}
  /\ cw' = [cw EXCEPT ![c].pc = IF cw[c].rows # {} THEN "insert" ELSE "done"]
  /\ UNCHANGED <<seen, outsideConf>>

\* if (rows.length) await supa.from('transcript_confirmations').insert(payload)
SaveConfirmationsInsert(c) ==
  /\ cw[c].pc = "insert"
  /\ transcript_confirmations' = transcript_confirmations \cup cw[c].rows
  /\ cw' = [cw EXCEPT ![c].pc = "done"]
  /\ UNCHANGED <<seen, outsideConf>>

\* getConfirmations: select ... eq(file_path) eq(version)
GetConfirmations(c) ==
  /\ seen' = [seen EXCEPT ![c] = [read |-> TRUE, rows |-> transcript_confirmations]]
  /\ UNCHANGED <<transcript_confirmations, cw, outsideConf>>

NextConf ==
  \/ \E c \in Clients, ranges \in RangeLists : SaveConfirmationsCall(c, ranges)
  \/ \E c \in Clients : SaveConfirmationsDelete(c)
  \/ \E c \in Clients : SaveConfirmationsInsert(c)
  \/ \E c \in Clients : GetConfirmations(c)

SpecConf == ConfInit /\ [][NextConf]_vars

\* the contexts of a set of rows, and whether the rows are exactly one of
\* the sets that were handed to a save (or the set that was there before)
Contexts(rows) == {r.ctx : r \in rows}

OneWholeSet(rows) ==
  /\ Cardinality(rows) = Cardinality(Contexts(rows))
  /\ \/ rows = EarlierRows
     \/ \E c \in Clients : cw[c].pc # "none" /\ Contexts(rows) = Contexts(cw[c].rows)

\* C21: replacing the confirmations of (doc, version) is atomic: whatever a
\* getConfirmations returns is one whole set (never the table between the
\* delete and the insert of a replacement), and once all replacements have
\* finished the table holds one whole set, not a mixture of two
C21_ReplaceAtomic ==
  /\ \A c \in Clients : seen[c].read => OneWholeSet(seen[c].rows)
  /\ (\A c \in Clients : cw[c].pc \in {"none", "done"}) =>
       OneWholeSet(transcript_confirmations)

\* ------------------------------------------------------------------------
\* The click handlers of markReliable / markUnreliable
\* ------------------------------------------------------------------------
\* the text of version 1 and what the editor may hold
MarkBase == <<"a">>

MarkTexts == {<<"a">>, <<"b">>, <<"a", " ">>}

\* the page's own connection to the store
PageClient == "c1"

\* the range the click confirms
MarkRanges == <<<<0, 1>>>>

\* the page is the legacy page (ui/controls.js, data/api.js) or the v2 page
\* (v2/ui/controls.js); version 1 is loaded and the user may have typed
MarkInit ==
  /\ \E p \in {"legacy", "v2"}, t \in MarkTexts :
       /\ mk = [NoMark EXCEPT !.page = p]
       /\ st = [version |-> 1, base_sha256 |-> sha256Hex(MarkBase),
                liveText |-> t, baselineText |-> MarkBase]
       /\ transcripts = IF p = "legacy" THEN {mkRow(1, MarkBase)} ELSE {}
       /\ versions = IF p = "v2" THEN <<mkRow(1, MarkBase)>> ELSE <<>>
  /\ transcript_edits = {}
  /\ pc = [c \in Clients |-> "idle"]
  /\ call = [c \in Clients |-> NoCall]
  /\ ret = [c \in Clients |-> NoRet]
  /\ chk = [c \in Clients |-> NoChk]
  /\ saving = FALSE
  /\ saveQueued = FALSE
  /\ idle = TRUE
  /\ inv = [i \in Slots |-> NoInv]
  /\ lastRequest = "none"
  /\ mergeTry = NoHandler
  /\ mrg = NoMerge
  /\ transcript_confirmations = {}
  /\ cw = [c \in Clients |-> NoWrite]
  /\ seen = [c \in Clients |-> NoSeen]
  /\ modal = NoDialog
  /\ LoadIdle
  /\ DiffIdle
  /\ FlowIdle

outsideMark == <<transcript_edits, pc, call, ret, chk, saving, saveQueued, idle, inv,
                 lastRequest, mergeTry, mrg, seen, modal, diffVars, loadVars, flowVars>>

\* the version the page is based on, as the store holds it
PageVersion ==
  IF mk.page = "legacy" THEN getTranscriptVersion(transcripts, st.version)
  ELSE backendGet(versions, st.version)

\* the user types
MarkType(t) ==
  /\ t # st.liveText
  /\ st' = [st EXCEPT !.liveText = t]
  /\ UNCHANGED <<mk, transcripts, versions, transcript_confirmations, cw, outsideMark>>

\* a performSave of the page commits the canonical editor text as the next
\* version and sets version and base_sha256 of the store state
MarkPageSave ==
  /\ st.version < MaxVersion
  /\ LET text == canonicalizeText(st.liveText)
         row == mkRow(st.version + 1, text)
     IN  /\ text # PageVersion.text
         /\ transcripts' = IF mk.page = "legacy" THEN transcripts \cup {row} ELSE transcripts
         /\ versions' = IF mk.page = "v2" THEN Append(versions, row) ELSE versions
         /\ st' = [st EXCEPT !.version = row.version, !.base_sha256 = row.base_sha256]
  /\ UNCHANGED <<mk, transcript_confirmations, cw, outsideMark>>

\* ui/controls.js, click: mayConfirmNow() up to its await: st = getState();
\* txt = st.liveText; h = await sha256Hex(txt)
LegacyMarkClick ==
  /\ mk.page = "legacy" /\ mk.pc = "none"
  /\ cw[PageClient].pc \in {"none", "done"}
  /\ mk' = IF st.version > 0 /\ st.base_sha256 # <<>>
           THEN [mk EXCEPT !.pc = "hash", !.txt = st.liveText,
                           !.base_sha256 = st.base_sha256]
           ELSE [mk EXCEPT !.pc = "then", !.ok = FALSE]
  /\ UNCHANGED <<st, transcripts, versions, transcript_confirmations, cw, outsideMark>>

\* the digest has arrived: return !!h && h === st.base_sha256
LegacyMarkHashed ==
  /\ mk.pc = "hash"
  /\ mk' = [mk EXCEPT !.pc = "then", !.ok = (sha256Hex(mk.txt) = mk.base_sha256)]
  /\ UNCHANGED <<st, transcripts, versions, transcript_confirmations, cw, outsideMark>>

\* persistConfirmations up to the first await of saveConfirmations:
\* st = getState(); txt = canonicalizeText(st.liveText);
\* saveConfirmations(path, st.version, st.base_sha256, ranges, txt)
persistConfirmations ==
  IF st.version > 0
  THEN cw' = [cw EXCEPT ![PageClient] =
                [pc |-> "delete",
                 rows |-> confPayload(PageClient, st.base_sha256, MarkRanges,
                                      canonicalizeText(st.liveText))]]
  ELSE cw' = cw

\* .then(ok => { if (!ok) { showToast(...); return; } ...
\* store.setConfirmedRanges(...); persistConfirmations(); })
LegacyMarkThen ==
  /\ mk.page = "legacy" /\ mk.pc = "then"
  /\ IF mk.ok THEN persistConfirmations ELSE cw' = cw
  /\ mk' = [NoMark EXCEPT !.page = mk.page, !.marked = mk.marked \/ mk.ok]
  /\ UNCHANGED <<st, transcripts, versions, transcript_confirmations, outsideMark>>

\* v2/ui/controls.js, click: let ok = await mayConfirmNow();
\* if (!ok) await performSave()
V2MarkClick ==
  /\ mk.page = "v2" /\ mk.pc = "none"
  /\ cw[PageClient].pc \in {"none", "done"}
  /\ mk' = [mk EXCEPT !.pc = IF mayConfirmNow THEN "persist" ELSE "save",
                       !.ok = mayConfirmNow, !.marked = mk.marked \/ mayConfirmNow]
  /\ UNCHANGED <<st, transcripts, versions, transcript_confirmations, cw, outsideMark>>

\* performSave has returned (a version was committed by MarkPageSave or not);
\* store.setConfirmedRanges(merged)
V2MarkSaved ==
  /\ mk.pc = "save"
  /\ mk' = [mk EXCEPT !.pc = "persist", !.marked = TRUE]
  /\ UNCHANGED <<st, transcripts, versions, transcript_confirmations, cw, outsideMark>>

\* if (ok || await waitForConfirmable(2500)) await persistConfirmations():
\* waitForConfirmable polls mayConfirmNow every 100 ms until it answers true
V2MarkPersist ==
  /\ mk.pc = "persist"
  /\ IF mk.ok \/ mayConfirmNow THEN persistConfirmations ELSE cw' = cw
  /\ mk' = [NoMark EXCEPT !.page = mk.page, !.marked = mk.marked]
  /\ UNCHANGED <<st, transcripts, versions, transcript_confirmations, outsideMark>>

\* the two requests of the running saveConfirmations
MarkDelete ==
  /\ cw[PageClient].pc = "delete"
  /\ transcript_confirmations' = {}
  /\ cw' = [cw EXCEPT ![PageClient].pc = IF cw[PageClient].rows # {} THEN "insert" ELSE "done"]
  /\ UNCHANGED <<st, mk, transcripts, versions, outsideMark>>

MarkInsert ==
  /\ cw[PageClient].pc = "insert"
  /\ transcript_confirmations' = transcript_confirmations \cup cw[PageClient].rows
  /\ cw' = [cw EXCEPT ![PageClient].pc = "done"]
  /\ UNCHANGED <<st, mk, transcripts, versions, outsideMark>>

NextMark ==
  \/ \E t \in MarkTexts : MarkType(t)
  \/ MarkPageSave
  \/ LegacyMarkClick
  \/ LegacyMarkHashed
  \/ LegacyMarkThen
  \/ V2MarkClick
  \/ V2MarkSaved
  \/ V2MarkPersist
  \/ MarkDelete
  \/ MarkInsert

SpecMark == MarkInit /\ [][NextMark]_vars

\* a saveConfirmations of the page starts in this step
PersistStarts == cw[PageClient].pc # "delete" /\ cw'[PageClient].pc = "delete"

\* the editor text hashes to the hash of the version the page is based on
Confirmable == sha256Hex(canonicalizeText(st.liveText)) = PageVersion.base_sha256

\* C22: confirmations are persisted against a version only when
\* sha256(canonicalize(current editor text)) equals that version's
\* base_sha256 at the moment of persisting
C22_PersistOnlyWhenConfirmable == [][PersistStarts => Confirmable]_vars

\* ------------------------------------------------------------------------
\* The 'diff' request of v2/workers/diff-worker.js, repeated
\* ------------------------------------------------------------------------
\* one 'diff' message for the texts of the case; whether the imports of
\* jsdiff and diff-match-patch succeed is decided anew for every request
RunWorkerDiff ==
  /\ \E jsdiffOk \in BOOLEAN, dmpOk \in BOOLEAN :
       ops' = workerDiff(caseA, caseB, jsdiffOk, dmpOk)
  /\ engine' = "worker"
  /\ UNCHANGED <<caseA, caseB, outsideDiff>>

NextWorker == RunWorkerDiff

SpecWorker == DiffInit /\ [][NextWorker]_vars

\* the request is answered a second time for the same two texts
Repeated == engine = "worker" /\ engine' = "worker" /\ caseA' = caseA /\ caseB' = caseB

\* C23: for the same inputs (a, b) the diff engine returns identical ops on
\* every invocation: a repeated request is answered with the ops of the
\* earlier one, whatever else differs between the invocations
C23_SameOpsEveryInvocation == [][Repeated => ops' = ops]_vars

\* ------------------------------------------------------------------------
\* Canonicalization on its own
\* ------------------------------------------------------------------------
\* every kind of character the two canonicalizations treat differently
CanonAlphabet == {"a", " ", "\t", "\n", "\r", NBSP, "|", Accent}

CanonInputs == UNION {[1..m -> CanonAlphabet] : m \in 0..MaxLen}

CanonInit ==
  /\ caseA \in CanonInputs
  /\ caseB = <<>>
  /\ engine = "none"
  /\ ops = <<>>
  /\ StoreIdle
  /\ CoordIdle
  /\ FlowIdle
  /\ ConfIdle
  /\ LoadIdle

\* canonicalizeText(s) of shared/canonical.js
RunCanonicalizeText ==
  /\ engine = "none"
  /\ caseB' = canonicalizeText(caseA)
  /\ engine' = "canonicalizeText"
  /\ UNCHANGED <<caseA, ops, outsideDiff>>

\* canon(s) of diff-core.js
RunCanon ==
  /\ engine = "none"
  /\ caseB' = canon(caseA)
  /\ engine' = "canon"
  /\ UNCHANGED <<caseA, ops, outsideDiff>>

NextCanon == RunCanonicalizeText \/ RunCanon

SpecCanon == CanonInit /\ [][NextCanon]_vars

\* C24: canonicalize(canonicalize(s)) = canonicalize(s) for every string s:
\* canonicalizing the result of a canonicalization changes nothing
C24_Idempotent ==
  /\ engine = "canonicalizeText" => canonicalizeText(caseB) = caseB
  /\ engine = "canon" => canon(caseB) = caseB

\* a text that the canonicalization had to change in more than one way
C24_Witness ==
  /\ engine = "canonicalizeText"
  /\ caseA = <<"a", " ", "|">>
  /\ caseB = <<"a">>

\* ------------------------------------------------------------------------
\* The diff of the scenario "simple save": "hello world" -> "hello world!"
\* ------------------------------------------------------------------------
HelloWorld == <<"h", "e", "l", "l", "o", " ", "w", "o", "r", "l", "d">>

HelloWorldBang == HelloWorld \o <<"!">>

\* the shortest text the scenario is started from
MinTyped == 7

\* the texts of the scenario and what the user has typed on the way to them
HelloTexts == {Slice(HelloWorldBang, 0, n) : n \in MinTyped..Len(HelloWorldBang)}

HelloInit ==
  /\ caseA \in HelloTexts
  /\ caseB \in HelloTexts
  /\ engine = "none"
  /\ ops = <<>>
  /\ StoreIdle
  /\ CoordIdle
  /\ FlowIdle
  /\ ConfIdle
  /\ LoadIdle

\* the 'diff' request of the worker, both imports available
RunWorkerOnline ==
  /\ engine = "none"
  /\ ops' = workerDiff(caseA, caseB, TRUE, TRUE)
  /\ engine' = "worker"
  /\ UNCHANGED <<caseA, caseB, outsideDiff>>

NextHello ==
  \/ RunDiffStrings
  \/ RunDiffStringsV2
  \/ RunWorkerOnline

SpecHello == HelloInit /\ [][NextHello]_vars

\* C25: the diff ops computed for the edit from "hello world" to
\* "hello world!" are exactly [(0,"hello world"),(1,"!")]
C25_HelloWorldOps ==
  (engine # "none" /\ caseA = HelloWorld /\ caseB = HelloWorldBang) =>
    ops = <<Op(0, HelloWorld), Op(1, <<"!">>)>>

\* ------------------------------------------------------------------------
\* The early conflict check of performSave
\* ------------------------------------------------------------------------
\* the probe of invocation i returns in this step and finds a latest version
\* that is not the client's version
ProbeFindsNewer(i) ==
  /\ inv[i].pc = "probe" /\ inv'[i].pc # "probe"
  /\ inv[i].version > 0
  /\ backendLatest(versions).version # inv[i].version

\* invocation i, which has found a newer latest version, takes its next step
AfterNewerFound(i) == inv[i].pc = "probeConflict" /\ inv'[i].pc # "probeConflict"

\* the dialog shows Conflict{parent, latest, d1, d2} for invocation i
ConflictEmitted(i) ==
  \E d1 \in workerDiffs(canonicalizeText(backendGet(versions, inv[i].version).text),
                        canonicalizeText(inv[i].res.latest.text)),
     d2 \in workerDiffs(canonicalizeText(backendGet(versions, inv[i].version).text),
                        inv[i].text) :
    modal' = renderConflict(
               earlyPayload(inv[i].res.latest, backendGet(versions, inv[i].version),
                            canonicalizeText(backendGet(versions, inv[i].version).text),
                            d1, d2))

\* C26: when the client's version is > 0 and the store's latest version
\* differs from it, the save does not call insert: it emits Conflict carrying
\* parent, latest, d1 = diff(parent_text, latest.text) and
\* d2 = diff(parent_text, text), and ends
C26_EarlyConflictNoInsert ==
  [][\A i \in Slots :
       /\ ProbeFindsNewer(i) => inv'[i].pc = "probeConflict"
       /\ AfterNewerFound(i) =>
            /\ inv'[i].pc = "none"
            /\ versions' = versions
            /\ ConflictEmitted(i)]_vars


\* ------------------------------------------------------------------------
\* Typing while a save is in flight (v2/ui/controls.js, v2/editor/pipeline.js)
\* ------------------------------------------------------------------------
\* the steps of performSave behind its insert, its background alignment, and
\* the input handler of the editor, which runs between any two of them
NextTyping ==
  \/ NextPost
  \/ \E t \in EditorTexts : Type(t)

SpecTyping == PostInit /\ [][NextTyping]_vars

\* the user has typed since the save was sent (the typing quiet window is open)
TypedSinceSave == ~idle

\* a step of the save, not of the input handler
SaveStep == ~(\E t \in EditorTexts : Type(t))

\* C27: text typed in the editor while a save, its post-save word refresh or
\* its background alignment is in flight is never overwritten by the store
\* updates the save performs when its responses arrive
C27_TypedTextKept ==
  [][(TypedSinceSave /\ SaveStep) => st'.liveText = st.liveText]_vars


\* ------------------------------------------------------------------------
\* verifyChainHash while another writer commits (history/verify-chain.js)
\* ------------------------------------------------------------------------
\* the edit record of a version: ops whose old side is the parent text and
\* whose new side is the text of the version
soundEdit(n, parentText, text) ==
  [parent_version |-> n - 1, child_version |-> n,
   ops |-> <<Op(-1, parentText), Op(1, text)>>]

\* the rows and records of a chain with the texts txt[1], ..., txt[k]
chainRows(txt) == {mkRow(n, txt[n]) : n \in DOMAIN txt}
chainEdits(txt) == {soundEdit(n, txt[n - 1], txt[n]) : n \in DOMAIN txt \ {1}}

\* a document with a sound chain of one or two versions, no call running
RaceInit ==
  /\ \E k \in 1..(MaxVersion - 1) : \E txt \in [1..k -> VerifyTexts] :
       /\ transcripts = chainRows(txt)
       /\ transcript_edits = chainEdits(txt)
  /\ pc = [c \in Clients |-> "idle"]
  /\ call = [c \in Clients |-> NoCall]
  /\ ret = [c \in Clients |-> NoRet]
  /\ chk = [c \in Clients |-> NoChk]
  /\ DiffIdle
  /\ FlowIdle
  /\ ConfIdle
  /\ LoadIdle
  /\ CoordIdle

\* another writer commits the next version together with its edit record
WriterCommit(t) ==
  /\ getLatestTranscript(transcripts).version < MaxVersion
  /\ LET latest == getLatestTranscript(transcripts)
     IN  /\ transcripts' = transcripts \cup {mkRow(latest.version + 1, t)}
         /\ transcript_edits' =
              transcript_edits \cup {soundEdit(latest.version + 1, latest.text, t)}
  /\ UNCHANGED <<pc, call, ret, chk, outsideStore>>

NextRace ==
  \/ VerifyCall("c1")
  \/ LegacyVerifyLatest("c1")
  \/ LegacyVerifyV1("c1")
  \/ LegacyVerifyEdits("c1")
  \/ LegacyFinally("c1")
  \/ \E t \in VerifyTexts : WriterCommit(t)

SpecRace == RaceInit /\ [][NextRace]_vars

\* verifyChainHash of client c has returned its verdict
VerdictTaken(c) == pc[c] = "finally" /\ call[c].caller = "verifyChainHash"

\* C28: verify never returns an error for a document whose stored chain is
\* sound, even when another writer commits a new version and its edit record
\* between the verifier's reads of latest, of version 1 and of the edit list
C28_SoundChainVerifies ==
  \A c \in Clients : (ChainSound /\ VerdictTaken(c)) => chk[c].result.ok


\* ------------------------------------------------------------------------
\* myersDiffSeq on its own: no validation, no fallback
\* ------------------------------------------------------------------------
\* the elements the arrays are made of
SeqElements == {"a", "b"}

\* the element sequences a and b: arrays of up to MaxLen elements
ElementSeqs == UNION {[1..m -> SeqElements] : m \in 0..MaxLen}

SeqInit ==
  /\ caseA \in ElementSeqs
  /\ caseB \in ElementSeqs
  /\ engine = "none"
  /\ ops = <<>>
  /\ StoreIdle
  /\ CoordIdle
  /\ FlowIdle
  /\ ConfIdle
  /\ LoadIdle

\* myersDiffSeq(a, b, arr => arr.join(''))
RunMyersDiffSeq ==
  /\ engine = "none"
  /\ ops' = myersDiffSeq(toChars(caseA), toChars(caseB))
  /\ engine' = "myersDiffSeq"
  /\ UNCHANGED <<caseA, caseB, outsideDiff>>

NextSeq == RunMyersDiffSeq

SpecSeq == SeqInit /\ [][NextSeq]_vars

\* C29: for all element sequences a and b the edit script returned by
\* myersDiffSeq(a, b) itself round-trips: its equal and delete payloads in
\* order spell a, its equal and insert payloads in order spell b
C29_ScriptSpellsBoth ==
  engine = "myersDiffSeq" =>
    (reconstructOld(ops) = caseA /\ reconstructNew(ops) = caseB)


\* ------------------------------------------------------------------------
\* validateTimingData on its own (v2/ui/controls.js)
\* ------------------------------------------------------------------------
\* the time 999999999: its decimal form is the nine digits alone, and
\* /^999999999\d/ asks for a tenth
NinesTime == 999999999

\* the start / end pairs of the words handed to validateTimingData
ValidatedPairs == TimingPairs \cup {<<NinesTime, NinesTime>>, <<1, Null>>}

\* the word lists handed to it: "a", "ab", and "a\nb" with the line break as
\* the token {word: '\n'} that buildWordsForSaveFromText makes of it
ValidatedLists ==
  {<<Word("a", p[1], p[2])>> : p \in ValidatedPairs}
    \cup {<<Word("a", p[1], p[2]), Word("b", q[1], q[2])>> :
            p \in ValidatedPairs, q \in ValidatedPairs}
    \cup {<<Word("a", p[1], p[2]), Word("\n", Null, Null), Word("b", q[1], q[2])>> :
            p \in ValidatedPairs, q \in ValidatedPairs}

TimingInit ==
  /\ \E ws \in ValidatedLists :
       post = [NoPost EXCEPT !.pc = "validate", !.received = ws]
  /\ req = NoReq
  /\ storedWords = <<>>
  /\ DiffIdle
  /\ StoreIdle
  /\ CoordIdle
  /\ ConfIdle
  /\ LoadIdle

\* validateTimingData(words) returns or throws
RunValidateTimingData ==
  /\ post.pc = "validate"
  /\ post' = [post EXCEPT !.pc = IF validateTimingData(post.received)
                                 THEN "returned" ELSE "thrown"]
  /\ UNCHANGED <<req, storedWords, diffVars, loadVars, storeVars, coordVars, confVars>>

NextTiming == RunValidateTimingData

SpecTiming == TimingInit /\ [][NextTiming]_vars

\* the decimal form of t begins 999999999
beginsNines(t) == t \in {NinesTime, FakeTime}

\* a word token: not a line break, both timings present
IsTimedWord(w) == w.word # "\n" /\ w.start # Null /\ w.end # Null

\* i and j are consecutive word tokens of ws
ConsecutiveWords(ws, i, j) ==
  /\ i < j
  /\ IsTimedWord(ws[i])
  /\ IsTimedWord(ws[j])
  /\ \A m \in (i + 1)..(j - 1) : ~IsTimedWord(ws[m])

\* what validation must reject; the times of the model are whole seconds, so
\* a start before the end ahead of it is before it by more than the tolerance
MustReject(ws) ==
  \/ \E i \in 1..Len(ws) : beginsNines(ws[i].start) \/ beginsNines(ws[i].end)
  \/ \E i \in 1..Len(ws) :
       ws[i].start # Null /\ ws[i].end # Null /\ ws[i].end < ws[i].start
  \/ \E i \in 1..Len(ws), j \in 1..Len(ws) :
       ConsecutiveWords(ws, i, j) /\ ws[j].start < ws[i].end

\* C30: timing validation rejects every word list that contains a word whose
\* start or end decimal form begins 999999999, a word with end < start, or a
\* non-monotonic transition between consecutive word tokens beyond tolerance
C30_InvalidTimingsRejected ==
  post.pc = "returned" => ~MustReject(post.received)


\* ------------------------------------------------------------------------
\* validateTimingData and the tolerance of the timing invariant
\* ------------------------------------------------------------------------
\* const EPS = 1e-3, in the unit of the times below: milliseconds
EPS == 1

\* the start / end pairs, in milliseconds: 1999 is one tolerance before 2000,
\* 1998 two
MilliPairs ==
  {<<Null, Null>>, <<1000, 2000>>, <<1998, 3000>>, <<1999, 3000>>, <<2000, 3000>>,
   <<2000, 1000>>, <<FakeTime, FakeTime>>}

\* word lists with those timings: "a", "ab", "a\nb"
MilliLists ==
  {<<Word("a", p[1], p[2])>> : p \in MilliPairs}
    \cup {<<Word("a", p[1], p[2]), Word("b", q[1], q[2])>> :
            p \in MilliPairs, q \in MilliPairs}
    \cup {<<Word("a", p[1], p[2]), Word("\n", Null, Null), Word("b", q[1], q[2])>> :
            p \in MilliPairs, q \in MilliPairs}

ToleranceInit ==
  /\ \E ws \in MilliLists :
       post = [NoPost EXCEPT !.pc = "validate", !.received = ws]
  /\ req = NoReq
  /\ storedWords = <<>>
  /\ DiffIdle
  /\ StoreIdle
  /\ CoordIdle
  /\ ConfIdle
  /\ LoadIdle

NextTolerance == RunValidateTimingData

SpecTolerance == ToleranceInit /\ [][NextTolerance]_vars

\* the timing invariant of a version: no fake value, no end before its start,
\* successive non-newline words with both timings within the tolerance
WithinTolerance(ws) ==
  /\ \A i \in 1..Len(ws) :
       /\ ~isFake(ws[i].start) /\ ~isFake(ws[i].end)
       /\ (ws[i].start # Null /\ ws[i].end # Null) => ws[i].end >= ws[i].start
  /\ \A i \in 1..Len(ws), j \in 1..Len(ws) :
       ConsecutiveWords(ws, i, j) => ws[j].start >= ws[i].end - EPS

\* C31: a word list in which every pair of successive non-newline words with
\* both timings present satisfies start >= previous end - 1e-3, and which has
\* no fake value and no end < start, passes timing validation
C31_WithinTolerancePasses ==
  (post.pc \in {"returned", "thrown"} /\ WithinTolerance(post.received))
    => post.pc = "returned"


\* ------------------------------------------------------------------------
\* The no-op check of performSave against the versions the page has saved
\* ------------------------------------------------------------------------
\* performSave of invocation i ends at 'nothing to save': no insert is sent
\* and no dialog is rendered
NoChangeReturned(i) ==
  /\ inv[i].pc \in {"probe", "probeConflict"}
  /\ inv'[i].pc = "none"
  /\ ~ProbeConflictShown(i)

\* the text of the latest version the page had loaded or saved when
\* invocation i read the state (st = getState() at the top of performSave)
KnownVersionText(i) == backendGet(versions, inv[i].version).text

\* C32: save returns NoChange only if the canonicalized editor text equals the
\* text of the latest version the client has loaded or saved; an edit that
\* changes the text relative to that version is never dropped as a no-op
C32_NoChangeOnlyWhenUnchanged ==
  [][\A i \in Slots :
       NoChangeReturned(i) => inv[i].text = canonicalizeText(KnownVersionText(i))]_vars

\* ------------------------------------------------------------------------
\* tryMerge racing with other writers, on the backend and on the table
\* ------------------------------------------------------------------------
\* the document has versions 1 and 2, in the backend of the v2 page or in the
\* table of the legacy page; the page stands on version 1 and its last save
\* was answered with a conflict
MergeRaceInit ==
  /\ \E base \in MergeTexts, latest \in MergeTexts, client \in MergeTexts :
       /\ \/ /\ versions = <<mkRow(1, base), mkRow(2, latest)>>
             /\ transcripts = {}
          \/ /\ versions = <<>>
             /\ transcripts = {mkRow(1, base), mkRow(2, latest)}
       /\ st = [version |-> 1, base_sha256 |-> sha256Hex(base),
                liveText |-> client, baselineText |-> base]
       /\ mergeTry = [wired |-> TRUE, latest |-> mkRow(2, latest),
                      parent |-> mkRow(1, base), text |-> client]
  /\ saving = FALSE
  /\ saveQueued = FALSE
  /\ idle = TRUE
  /\ inv = [i \in Slots |-> NoInv]
  /\ lastRequest = "accepted"
  /\ mrg = NoMerge
  /\ transcript_edits = {}
  /\ pc = [c \in Clients |-> "idle"]
  /\ call = [c \in Clients |-> NoCall]
  /\ ret = [c \in Clients |-> NoRet]
  /\ chk = [c \in Clients |-> NoChk]
  /\ DiffIdle
  /\ FlowIdle
  /\ ConfIdle
  /\ LoadIdle

\* the v2 page saves through the backend, the legacy page through the table
NextMergeRace ==
  \/ ClickMergeTry
  \/ TryMergeDiff
  \/ versions # <<>> /\ TryMergeSave
  \/ TryMergeReturn
  \/ transcripts # {} /\ LegacyTryMergeSave("c1")
  \/ ApiBegin("c1")
  \/ ApiInsert("c1")
  \/ LegacyTryMergeReturn("c1")
  \/ \E t \in WriterTexts : versions # <<>> /\ OtherWriterSave(t)
  \/ \E t \in WriterTexts : transcripts # {} /\ WriterCommit(t)

SpecMergeRace == MergeRaceInit /\ [][NextMergeRace]_vars

\* the backend answers the save of tryMerge
BackendCommitStep == mrg.pc = "save" /\ mrg'.pc \in {"saved", "none"}

\* the table answers the insert of tryMerge's saveTranscriptVersion
TableCommitStep ==
  /\ pc["c1"] = "insert"
  /\ call["c1"].caller = "tryMerge"
  /\ pc'["c1"] = "done"

MaxLoads == 3

\* the episodes of the folder; every one has a saved version
Docs == {"A", "B"}

\* the words of the latest version of an episode
WordCount(d) == IF d = "A" THEN 2 ELSE 1

NoTokens == [doc |-> "none", len |-> 0]

NoPager == [running |-> FALSE, abort |-> FALSE, timer |-> FALSE, doc |-> "none",
            version |-> "none", all |-> 0, pc |-> "idle"]

\* the page after main.js has run: nothing loaded, the first pager.start()
\* is scheduled (setTimeout(() => pager.start(), 500))
LoadInit ==
  /\ ld = [desiredPath |-> "none", loadSeq |-> 0, requested |-> 0, loads |-> <<>>,
           tokens |-> NoTokens, liveText |-> "none", baselineText |-> "none",
           version |-> "none", confirmedRanges |-> "none", dataset |-> "none",
           pager |-> [NoPager EXCEPT !.timer = TRUE]]
  /\ DiffIdle
  /\ StoreIdle
  /\ CoordIdle
  /\ FlowIdle
  /\ ConfIdle

\* the MutationObserver of initWordsPager on data-file: pager.stop() and
\* setTimeout(() => pager.start(), 50)
onDocChange(pager) == [pager EXCEPT !.abort = TRUE, !.timer = TRUE]

\* lastLoadController.abort() on the loads the browser started before
abortEarlier(loads) ==
  [l \in 1..Len(loads) |->
     IF loads[l].via = "browser" THEN [loads[l] EXCEPT !.aborted = TRUE] ELSE loads[l]]

\* click on a file of the browser: desiredPath is set and loadEpisodeFile
\* runs up to its await of loadEpisode
ClickFile(d) ==
  /\ Len(ld.loads) < MaxLoads
  /\ ld' = [ld EXCEPT
              !.desiredPath = d,
              !.loadSeq = ld.loadSeq + 1,
              !.requested = ld.requested + 1,
              !.dataset = d,
              !.pager = onDocChange(ld.pager),
              !.loads = Append(abortEarlier(ld.loads),
                               [pc |-> "loading", via |-> "browser", key |-> d,
                                mySeq |-> ld.loadSeq + 1, order |-> ld.requested + 1,
                                aborted |-> FALSE])]
  /\ UNCHANGED <<diffVars, storeVars, coordVars, flowVars, confVars>>

\* store.setTokens / setLiveText / setBaseline / setState({version}) with the
\* episode of load l, whose initialTokens has n tokens
applyEpisode(l, n) ==
  [ld EXCEPT !.tokens = [doc |-> ld.loads[l].key, len |-> n],
             !.liveText = ld.loads[l].key,
             !.baselineText = ld.loads[l].key,
             !.version = ld.loads[l].key,
             !.loads[l].pc = "confs"]

\* loadEpisodeFile after its await of loadEpisode: the three guards, then the
\* episode enters the store; a throw of loadEpisode lands in the catch
LoadEpisodeReturn(l, n, throws) ==
  /\ l \in 1..Len(ld.loads)
  /\ ld.loads[l].pc = "loading"
  /\ ld.loads[l].via = "browser"
  /\ n \in {0, WordCount(ld.loads[l].key)}
  /\ ld' = IF throws
              \/ ld.loads[l].aborted
              \/ ld.loads[l].mySeq # ld.loadSeq
              \/ ld.loads[l].key # ld.desiredPath
           THEN [ld EXCEPT !.loads[l].pc = "done"]
           ELSE applyEpisode(l, n)
  /\ UNCHANGED <<diffVars, storeVars, coordVars, flowVars, confVars>>

\* Enter on a search result: onOpen sets the dataset of the transcript and
\* awaits api.loadEpisode
OnOpen(d) ==
  /\ Len(ld.loads) < MaxLoads
  /\ ld' = [ld EXCEPT
              !.requested = ld.requested + 1,
              !.dataset = d,
              !.pager = onDocChange(ld.pager),
              !.loads = Append(ld.loads,
                               [pc |-> "loading", via |-> "search", key |-> d,
                                mySeq |-> 0, order |-> ld.requested + 1,
                                aborted |-> FALSE])]
  /\ UNCHANGED <<diffVars, storeVars, coordVars, flowVars, confVars>>

\* onOpen after its await of api.loadEpisode: the episode enters the store
OnOpenReturn(l, n, throws) ==
  /\ l \in 1..Len(ld.loads)
  /\ ld.loads[l].pc = "loading"
  /\ ld.loads[l].via = "search"
  /\ n \in {0, WordCount(ld.loads[l].key)}
  /\ ld' = IF throws THEN [ld EXCEPT !.loads[l].pc = "done"] ELSE applyEpisode(l, n)
  /\ UNCHANGED <<diffVars, storeVars, coordVars, flowVars, confVars>>

\* the answer of getConfirmations(filePath, episode.version) arrives:
\* store.setConfirmedRanges(ranges), or setConfirmedRanges([]) in the catch
\* of loadEpisodeFile (onOpen's catch is empty)
ConfirmationsReturn(l, throws) ==
  /\ l \in 1..Len(ld.loads)
  /\ ld.loads[l].pc = "confs"
  /\ ld' = [ld EXCEPT
              !.confirmedRanges =
                 IF ~throws THEN ld.loads[l].key
                 ELSE IF ld.loads[l].via = "browser" THEN "empty"
                 ELSE ld.confirmedRanges,
              !.loads[l].pc = "done"]
  /\ UNCHANGED <<diffVars, storeVars, coordVars, flowVars, confVars>>

\* the timer of pager.start() fires: start() up to its first await
PagerStart ==
  /\ ld.pager.timer
  /\ LET p == ld.pager
         tokLen == ld.tokens.len
         baseLen == IF ld.baselineText = "none" THEN 0 ELSE WordCount(ld.baselineText)
     IN  ld' = [ld EXCEPT !.pager =
                  IF p.running THEN [p EXCEPT !.timer = FALSE]
                  ELSE IF ld.version = "none"
                       THEN [p EXCEPT !.timer = FALSE, !.abort = FALSE]
                  ELSE IF tokLen # 0 /\ (baseLen = 0 \/ tokLen >= baseLen)
                       THEN [p EXCEPT !.timer = FALSE, !.abort = FALSE]
                  ELSE [p EXCEPT !.timer = FALSE, !.abort = FALSE, !.running = TRUE,
                                 !.doc = ld.dataset, !.version = ld.version,
                                 !.all = 0, !.pc = "fetch"]]
  /\ UNCHANGED <<diffVars, storeVars, coordVars, flowVars, confVars>>

\* the pager's await of api.getTranscriptWords(doc, version, {segment, count})
\* returns: no words ends the loop, otherwise all grows and is written to the
\* store unless the store already holds as many tokens
PagerWords ==
  /\ ld.pager.pc = "fetch"
  /\ LET p == ld.pager
     IN  IF p.all >= WordCount(p.doc)
         THEN ld' = [ld EXCEPT !.pager = [p EXCEPT !.running = FALSE, !.pc = "idle"]]
         ELSE ld' = [ld EXCEPT
                       !.pager = [p EXCEPT !.all = p.all + 1, !.pc = "pause"],
                       !.tokens = IF ld.tokens.len >= p.all + 1 THEN ld.tokens
                                  ELSE [doc |-> p.doc, len |-> p.all + 1]]
  /\ UNCHANGED <<diffVars, storeVars, coordVars, flowVars, confVars>>

\* the pager's 20 ms pause is over: while (!abort)
PagerPause ==
  /\ ld.pager.pc = "pause"
  /\ ld' = [ld EXCEPT !.pager =
              IF ld.pager.abort THEN [ld.pager EXCEPT !.running = FALSE, !.pc = "idle"]
              ELSE [ld.pager EXCEPT !.pc = "fetch"]]
  /\ UNCHANGED <<diffVars, storeVars, coordVars, flowVars, confVars>>

NextLoad ==
  \/ \E d \in Docs : ClickFile(d)
  \/ \E l \in 1..MaxLoads, n \in 0..2, throws \in BOOLEAN : LoadEpisodeReturn(l, n, throws)
  \/ \E d \in Docs : OnOpen(d)
  \/ \E l \in 1..MaxLoads, n \in 0..2, throws \in BOOLEAN : OnOpenReturn(l, n, throws)
  \/ \E l \in 1..MaxLoads, throws \in BOOLEAN : ConfirmationsReturn(l, throws)
  \/ PagerStart
  \/ PagerWords
  \/ PagerPause

SpecLoad == LoadInit /\ [][NextLoad]_vars

\* load l passes from its await of loadEpisode to the store writes
EpisodeApplied(l) ==
  /\ l \in 1..Len(ld.loads)
  /\ ld.loads[l].pc = "loading"
  /\ ld'.loads[l].pc = "confs"

\* C34: when several episode loads overlap and complete in any order, only
\* the result of the most recently requested load is ever written to the
\* store's tokens, live text, baseline and version; superseded loads are
\* discarded
C34_OnlyLatestLoadApplied ==
  [][\A l \in 1..MaxLoads : EpisodeApplied(l) => ld.loads[l].order = ld.requested]_vars

\* the store's confirmed ranges are replaced in this step
ConfirmedRangesSet == ld'.confirmedRanges # ld.confirmedRanges

\* C35: the confirmed ranges held by the store always belong to the document
\* and version currently loaded; a confirmations response that arrives after
\* the user has switched to another episode is not applied
C35_ConfirmationsOfLoadedDoc ==
  [][ConfirmedRangesSet => ld'.confirmedRanges \in {"empty", ld'.version}]_vars

\* the pager writes the words it has collected to the store in this step
PagerWrote ==
  /\ ld.pager.pc = "fetch"
  /\ ld'.pager.pc = "pause"
  /\ ld'.tokens # ld.tokens

\* the store holds another document than the one it held when the pager
\* started, and it is not the one the pager fetches words for
PagerStale == ld.pager.version # ld.version /\ ld.pager.doc # ld.version

\* C36: after the loaded document changes, the words pager never writes to
\* the store words it fetched for the previous document or version
C36_PagerWritesLoadedDoc == [][PagerWrote => ~PagerStale]_vars

\* ------------------------------------------------------------------------
\* The patch composer on its own: overlaps and toEdits
\* ------------------------------------------------------------------------
\* the highest position of an edit handed to overlaps
MaxPos == 4

\* the edits overlaps is exercised with: insertions and replacements
PatchEdits ==
  {ed \in [start : 0..MaxPos, end : 0..MaxPos, ins : {<<>>, <<"b">>}] :
     ed.start <= ed.end /\ (ed.start = ed.end => ed.ins # <<>>)}

OverlapInit ==
  /\ caseA \in PatchEdits
  /\ caseB \in PatchEdits
  /\ engine = "none"
  /\ ops = <<>>
  /\ StoreIdle
  /\ CoordIdle
  /\ FlowIdle
  /\ ConfIdle
  /\ LoadIdle

\* overlaps(a, b) of tryMerge
RunOverlaps ==
  /\ engine = "none"
  /\ ops' = overlaps(caseA, caseB)
  /\ engine' = "overlaps"
  /\ UNCHANGED <<caseA, caseB, outsideDiff>>

NextOverlap == RunOverlaps

SpecOverlap == OverlapInit /\ [][NextOverlap]_vars

PureInsertion(e) == e.start = e.end

\* the position of insertion i lies in [r.start, r.end)
InsideRange(i, r) == r.start <= i.start /\ i.start < r.end

\* the ranges [a.start, a.end) and [b.start, b.end) share a position
StrictlyIntersect(a, b) == \E p \in 0..MaxPos : a.start <= p /\ p < a.end /\ b.start <= p /\ p < b.end

\* the three cases of the patch composer's definition
OverlapCases(a, b) ==
  \/ PureInsertion(a) /\ PureInsertion(b) /\ a.start = b.start
  \/ PureInsertion(a) /\ ~PureInsertion(b) /\ InsideRange(a, b)
  \/ PureInsertion(b) /\ ~PureInsertion(a) /\ InsideRange(b, a)
  \/ ~PureInsertion(a) /\ ~PureInsertion(b) /\ StrictlyIntersect(a, b)

\* C37: overlaps(e1, e2) holds exactly when both edits are pure insertions
\* with equal starts, or one is a pure insertion whose position lies in
\* [r.start, r.end) of the other, a replacement r, or both are replacements
\* whose ranges strictly intersect
C37_OverlapsCases == engine = "overlaps" => (ops <=> OverlapCases(caseA, caseB))

\* an insertion inside a replacement has been found to overlap
C37_Witness ==
  /\ engine = "overlaps"
  /\ ops = TRUE
  /\ PureInsertion(caseA)
  /\ caseB.start < caseA.start
  /\ caseA.start < caseB.end

\* how many ops a diff script handed to toEdits has
MaxOps == 4

\* the diff scripts toEdits is exercised with
PatchScripts ==
  UNION {[1..n -> {Op(c, s) : c \in {-1, 0, 1}, s \in {<<"a">>, <<"a", "b">>}}] : n \in 0..MaxOps}

ToEditsInit ==
  /\ caseA \in PatchScripts
  /\ caseB = <<>>
  /\ engine = "none"
  /\ ops = <<>>
  /\ StoreIdle
  /\ CoordIdle
  /\ FlowIdle
  /\ ConfIdle
  /\ LoadIdle

\* toEdits(base, diffs) of tryMerge
RunToEdits ==
  /\ engine = "none"
  /\ ops' = toEdits(caseA)
  /\ engine' = "toEdits"
  /\ UNCHANGED <<caseA, caseB, outsideDiff>>

NextToEdits == RunToEdits

SpecToEdits == ToEditsInit /\ [][NextToEdits]_vars

\* the position in base before op i: the payloads of the equals and deletes
\* in front of it
BasePos(diffs, i) ==
  Sum([j \in 1..(i - 1) |-> IF diffs[j].op = 1 THEN 0 ELSE Len(diffs[j].s)])

\* the first op of the delete run that op i ends
RunStart(diffs, i) ==
  CHOOSE j \in 1..i :
    /\ \A k \in j..i : diffs[k].op = -1
    /\ j = 1 \/ diffs[j - 1].op # -1

\* op i completes an edit: an insert, or a delete followed by an equal or by
\* the end of the stream
ClosesEdit(diffs, i) ==
  \/ diffs[i].op = 1
  \/ diffs[i].op = -1 /\ (i = Len(diffs) \/ diffs[i + 1].op = 0)

\* the edit op i completes
EditAt(diffs, i) ==
  IF diffs[i].op = 1
  THEN IF i > 1 /\ diffs[i - 1].op = -1
       THEN [start |-> BasePos(diffs, RunStart(diffs, i - 1)), end |-> BasePos(diffs, i),
             ins |-> diffs[i].s]
       ELSE [start |-> BasePos(diffs, i), end |-> BasePos(diffs, i), ins |-> diffs[i].s]
  ELSE [start |-> BasePos(diffs, RunStart(diffs, i)), end |-> BasePos(diffs, i + 1),
        ins |-> <<>>]

\* the edits of a script, in the order of the ops that complete them
EditsOf(diffs) ==
  LET closers == SelectSeq([i \in 1..Len(diffs) |-> i], LAMBDA i : ClosesEdit(diffs, i))
  IN  [n \in 1..Len(closers) |-> EditAt(diffs, closers[n])]

\* C38: to_edits returns edits positioned in base: a delete run followed by an
\* insert becomes one replacement [pos, pos+len) carrying that insert, a
\* delete run followed by an equal or by the end of the stream becomes a
\* replacement with ins = "", and an insert not preceded by a delete becomes a
\* pure insertion with start = end = the current position in base
C38_ToEditsCases == engine = "toEdits" => ops = EditsOf(caseA)

\* a script with a replacement, a bare deletion at the end and a pure
\* insertion has been converted
C38_Witness ==
  /\ engine = "toEdits"
  /\ Len(ops) = 3
  /\ \E n \in 1..3 : ops[n].start < ops[n].end /\ ops[n].ins # <<>>
  /\ \E n \in 1..3 : ops[n].start = ops[n].end
  /\ ops[3].ins = <<>>

\* no op with an empty payload, no two adjacent ops with the same code
Normalised(ds) ==
  /\ \A i \in 1..Len(ds) : ds[i].s # <<>>
  /\ \A i \in 1..(Len(ds) - 1) : ds[i].op # ds[i + 1].op

\* C39: every op list returned by the diff engine, from any stage or fallback
\* and for any inputs (including two empty strings), contains no op with an
\* empty payload and no two adjacent ops with the same code
C39_OutputNormalised == engine = "worker" => Normalised(ops)

\* ------------------------------------------------------------------------
\* The timing aligner of workers/init.js.  Times are whole milliseconds; the
\* baselines are chosen so that the windows divide without a remainder where
\* the outcome depends on it.
\* ------------------------------------------------------------------------
\* const MIN_WORD_DUR = 0.02
MIN_WORD_DUR == 20

\* stands for NaN, the time of an inserted token before it is assigned
NaN == 1000000

\* stands for -Infinity: below every time of the model
NegInfinity == -1000000

isFiniteNum(x) == x # NaN /\ x > NegInfinity \div 2

\* /^\s$/u
isWSChar(w) == w \in {<<" ">>, <<"\n">>}

Tok(w, s, e, state) == [word |-> w, start |-> s, end |-> e, state |-> state]

RECURSIVE tokenizeFrom(_, _)
\* tokenize(text): every whitespace character is a token, the characters
\* between them form the word tokens
tokenizeFrom(text, buf) ==
  IF text = <<>> THEN (IF buf # <<>> THEN <<buf>> ELSE <<>>)
  ELSE IF Head(text) \in {" ", "\n"}
       THEN (IF buf # <<>> THEN <<buf>> ELSE <<>>) \o <<<<Head(text)>>>>
              \o tokenizeFrom(Tail(text), <<>>)
       ELSE tokenizeFrom(Tail(text), buf \o <<Head(text)>>)

tokenize(text) == tokenizeFrom(text, <<>>)

\* t.start ?? 0
orZero(x) == IF x = Null THEN 0 ELSE x

\* normalizeBaselineForDiff for baseline tokens that are one word, one
\* whitespace run or a newline: a whitespace run becomes a zero-length anchor
\* at the start of its span
normalizeBaselineForDiff(base) ==
  [n \in 1..Len(base) |->
     LET t == base[n]
     IN  IF t.word # <<"\n">> /\ isWSChar(t.word)
         THEN Tok(t.word, orZero(t.start), orZero(t.start), "base")
         ELSE Tok(t.word, orZero(t.start),
                  IF t.end = Null THEN orZero(t.start) ELSE t.end, "base")]

RECURSIVE lcsLen(_, _, _, _)
\* dp[i][j] of the LCS table (i, j are 1-based here)
lcsLen(A, B, i, j) ==
  IF i > Len(A) \/ j > Len(B) THEN 0
  ELSE IF A[i].word = B[j] THEN lcsLen(A, B, i + 1, j + 1) + 1
  ELSE Max(lcsLen(A, B, i + 1, j), lcsLen(A, B, i, j + 1))

RECURSIVE classify(_, _, _, _)
\* the walk over the LCS table that marks every token keep, del or ins
classify(A, B, i, j) ==
  IF i <= Len(A) /\ j <= Len(B)
  THEN IF A[i].word = B[j]
       THEN <<[A[i] EXCEPT !.state = "keep"]>> \o classify(A, B, i + 1, j + 1)
       ELSE IF lcsLen(A, B, i + 1, j) >= lcsLen(A, B, i, j + 1)
            THEN <<[A[i] EXCEPT !.state = "del"]>> \o classify(A, B, i + 1, j)
            ELSE <<Tok(B[j], NaN, NaN, "ins")>> \o classify(A, B, i, j + 1)
  ELSE IF i <= Len(A)
       THEN <<[A[i] EXCEPT !.state = "del"]>> \o classify(A, B, i + 1, j)
  ELSE IF j <= Len(B)
       THEN <<Tok(B[j], NaN, NaN, "ins")>> \o classify(A, B, i, j + 1)
  ELSE <<>>

isWordKeep(w) ==
  /\ w.state = "keep"
  /\ ~isWSChar(w.word)
  /\ isFiniteNum(w.start)
  /\ isFiniteNum(w.end)
  /\ w.end > w.start

isAnyKeep(w) == w.state = "keep" /\ isFiniteNum(w.start) /\ isFiniteNum(w.end)

isKeptNewline(w) == w.state = "keep" /\ w.word = <<"\n">>

NoAnchor == [has |-> FALSE, start |-> 0, end |-> 0]

anchorOf(w) == [has |-> TRUE, start |-> w.start, end |-> w.end]

\* the nearest token of ks that test accepts, unless a kept newline comes
\* first; near picks the nearest index of a set
scanAnchor(arr, ks, near(_), test(_)) ==
  LET hits == {k \in ks : isKeptNewline(arr[k]) \/ test(arr[k])}
  IN  IF hits = {} THEN [found |-> FALSE, anchor |-> NoAnchor]
      ELSE IF isKeptNewline(arr[near(hits)])
           THEN [found |-> TRUE, anchor |-> NoAnchor]
           ELSE [found |-> TRUE, anchor |-> anchorOf(arr[near(hits)])]

\* the two loops of leftAnchor / rightAnchor: word anchors first, then any
\* kept token
findAnchor(arr, ks, near(_)) ==
  LET first == scanAnchor(arr, ks, near, isWordKeep)
  IN  IF first.found THEN first.anchor
      ELSE scanAnchor(arr, ks, near, isAnyKeep).anchor

leftAnchor(arr, i) ==
  findAnchor(arr, 1..(i - 1), LAMBDA S : CHOOSE k \in S : \A q \in S : q <= k)

rightAnchor(arr, i) ==
  findAnchor(arr, (i + 1)..Len(arr), LAMBDA S : CHOOSE k \in S : \A q \in S : k <= q)

\* Math.max(0.12 * Math.max(1, n), 0.12)
winLenFor(n) == Max(120 * Max(1, n), 120)

\* [winStart, winEnd] of a cluster with wordCount words between L and R
windowOf(L, R, wordCount) ==
  LET w == IF L.has /\ R.has /\ R.start > L.end THEN <<L.end, R.start>>
           ELSE IF L.has THEN <<L.end, L.end + winLenFor(wordCount)>>
           ELSE IF R.has THEN <<R.start - winLenFor(wordCount), R.start>>
           ELSE <<0, winLenFor(wordCount)>>
  IN  IF w[2] <= w[1] THEN <<w[1], w[1] + winLenFor(wordCount)>> ELSE w

RECURSIVE fillCluster(_, _, _, _, _, _, _, _, _)
\* the loop over the tokens i+k of a cluster with words: whitespace gets a
\* zero-length anchor, a word gets start and end around its share of the
\* window.  step = (winEnd - winStart) / (wordCount + 1)
fillCluster(arr, i, k, len, prevAssigned, nthWord, win, wordCount, R) ==
  IF k >= len THEN arr
  ELSE LET g    == arr[i + k]
           span == win[2] - win[1]
       IN  IF isWSChar(g.word)
           THEN LET a0 == win[1] + (span * (k + 1)) \div (len + 1)
                    a1 == Max(Max(a0, prevAssigned + EPS), win[1] + EPS)
                    a2 == IF R.has THEN Min(a1, R.start - EPS) ELSE a1
                IN  fillCluster([arr EXCEPT ![i + k].start = a2, ![i + k].end = a2],
                                i, k + 1, len, a2, nthWord, win, wordCount, R)
           ELSE LET n  == nthWord + 1
                    s0 == win[1] + (span * (20 * n - 9)) \div (20 * (wordCount + 1))
                    s1 == Max(Max(s0, prevAssigned + EPS), win[1] + EPS)
                    s2 == IF R.has THEN Min(s1, R.start - EPS) ELSE s1
                    e0 == s2 + Max(MIN_WORD_DUR, (9 * span) \div (10 * (wordCount + 1)))
                    e1 == IF R.has /\ e0 > R.start - EPS
                          THEN Max(s2 + MIN_WORD_DUR, R.start - EPS) ELSE e0
                IN  fillCluster([arr EXCEPT ![i + k].start = s2, ![i + k].end = e1],
                                i, k + 1, len, s2, n, win, wordCount, R)

\* a whitespace-only cluster: every token at the middle of the window
fillWhitespace(arr, i, j, win, L, R) ==
  LET a0 == win[1] + (win[2] - win[1]) \div 2
      a1 == IF L.has THEN Max(a0, L.end + EPS) ELSE a0
      a2 == IF R.has THEN Min(a1, R.start - EPS) ELSE a1
  IN  [n \in 1..Len(arr) |->
         IF n >= i /\ n < j THEN [arr[n] EXCEPT !.start = a2, !.end = a2] ELSE arr[n]]

RECURSIVE monotonicize(_, _, _, _)
\* monotonicize within the cluster k..j-1
monotonicize(arr, k, j, last) ==
  IF k >= j THEN arr
  ELSE LET g   == arr[k]
           dur == IF isWSChar(g.word) THEN 0 ELSE MIN_WORD_DUR
           s0  == IF ~isFiniteNum(g.start) THEN last + EPS ELSE g.start
           s1  == IF s0 < last - EPS THEN last + EPS ELSE s0
           e0  == IF ~isFiniteNum(g.end) THEN s1 + dur ELSE g.end
           e1  == IF e0 < s1 THEN s1 + dur ELSE e0
       IN  monotonicize([arr EXCEPT ![k].start = s1, ![k].end = e1], k + 1, j, s1)

\* the end of the run of inserted tokens that starts at i (exclusive)
clusterEnd(arr, i) ==
  IF \A k \in i..Len(arr) : arr[k].state = "ins" THEN Len(arr) + 1
  ELSE CHOOSE j \in i..Len(arr) :
         arr[j].state # "ins" /\ \A k \in i..(j - 1) : arr[k].state = "ins"

RECURSIVE assignClusters(_, _)
\* the while loop of assignTimesFromAnchors over the clusters of inserted
\* tokens
assignClusters(arr, i) ==
  IF i > Len(arr) THEN arr
  ELSE IF arr[i].state # "ins" THEN assignClusters(arr, i + 1)
  ELSE LET j  == clusterEnd(arr, i)
           L  == leftAnchor(arr, i)
           R  == rightAnchor(arr, j - 1)
           wordCount == Cardinality({k \in i..(j - 1) : ~isWSChar(arr[k].word)})
           win    == windowOf(L, R, wordCount)
           filled == IF wordCount > 0
                     THEN fillCluster(arr, i, 0, j - i,
                                      IF L.has /\ isFiniteNum(L.end) THEN L.end ELSE NegInfinity,
                                      0, win, wordCount, R)
                     ELSE fillWhitespace(arr, i, j, win, L, R)
       IN  assignClusters(
             monotonicize(filled, i, j,
                          IF L.has /\ isFiniteNum(L.end) THEN L.end ELSE NegInfinity), j)

RECURSIVE globalPass(_, _, _)
\* global pass: enforce non-decreasing starts
globalPass(arr, k, prev) ==
  IF k > Len(arr) THEN arr
  ELSE LET t == arr[k]
       IN  IF t.state = "del" \/ t.word = <<"\n">> THEN globalPass(arr, k + 1, prev)
           ELSE LET dur == IF isWSChar(t.word) THEN 0 ELSE MIN_WORD_DUR
                    s0  == IF ~isFiniteNum(t.start) THEN prev + EPS ELSE t.start
                    e0  == IF ~isFiniteNum(t.end) THEN s0 + dur ELSE t.end
                    s1  == IF s0 < prev - EPS THEN prev + EPS ELSE s0
                    e1  == IF s0 < prev - EPS /\ e0 < s1 THEN s1 + dur ELSE e0
                IN  globalPass([arr EXCEPT ![k].start = s1, ![k].end = e1],
                               k + 1, Max(prev, s1))

assignTimesFromAnchors(arr) == globalPass(assignClusters(arr, 1), 1, NegInfinity)

\* finalizeTokens: the deleted tokens are dropped
finalizeTokens(tokens) ==
  LET kept == SelectSeq(tokens, LAMBDA t : t.state # "del")
  IN  [n \in 1..Len(kept) |->
         [word |-> kept[n].word, start |-> kept[n].start, end |-> kept[n].end]]

alignFromBaseline(baseline, newText) ==
  finalizeTokens(
    assignTimesFromAnchors(
      classify(normalizeBaselineForDiff(baseline), tokenize(newText), 1, 1)))

\* the tokens a baseline is made of: words with their times, blanks, a
\* line break without times
BaselineTokens ==
  {Tok(<<"a">>, 0, 10, "base"), Tok(<<"a">>, 130, 250, "base"),
   Tok(<<"b">>, 130, 250, "base"), Tok(<<"b">>, 370, 490, "base"),
   Tok(<<" ">>, 10, 10, "base"), Tok(<<" ">>, 250, 250, "base"),
   Tok(<<"\n">>, Null, Null, "base")}

\* how many tokens a baseline has, how many characters the edited text
MaxAlign == 3

\* successive timed tokens do not step back in time
TimeOrdered(ts) ==
  \A i \in 1..Len(ts), j \in 1..Len(ts) :
    (i < j /\ ts[i].start # Null /\ ts[j].start # Null) => ts[i].end <= ts[j].start

Baselines ==
  {ts \in UNION {[1..n -> BaselineTokens] : n \in 0..MaxAlign} : TimeOrdered(ts)}

AlignTexts == UNION {[1..n -> {"a", "b", " ", "\n"}] : n \in 0..MaxAlign}

AlignInit ==
  /\ caseA \in Baselines
  /\ caseB \in AlignTexts
  /\ engine = "none"
  /\ ops = <<>>
  /\ StoreIdle
  /\ CoordIdle
  /\ FlowIdle
  /\ ConfIdle
  /\ LoadIdle

\* the 'align' message: alignFromBaseline(baselineTokens, text)
RunAlign ==
  /\ engine = "none"
  /\ ops' = alignFromBaseline(caseA, caseB)
  /\ engine' = "align"
  /\ UNCHANGED <<caseA, caseB, outsideDiff>>

NextAlign == RunAlign

SpecAlign == AlignInit /\ [][NextAlign]_vars

\* start is non-decreasing across the non-newline tokens, in order
StartsNonDecreasing(ts) ==
  \A i \in 1..Len(ts), j \in 1..Len(ts) :
    (i < j /\ ts[i].word # <<"\n">> /\ ts[j].word # <<"\n">>) => ts[i].start <= ts[j].start

\* every word token lasts at least the minimum word duration
WordsLastMinimum(ts) ==
  \A i \in 1..Len(ts) : ~isWSChar(ts[i].word) => ts[i].end >= ts[i].start + MIN_WORD_DUR

\* C40: in the token list returned by the timing aligner, start is
\* non-decreasing across all non-newline tokens in order, and every word
\* (non-whitespace) token has end >= start + 0.02
C40_AlignedTimesMonotone ==
  engine = "align" => StartsNonDecreasing(ops) /\ WordsLastMinimum(ops)

====
